---- MODULE Spec2Model ----
(***************************************************************************)
(* Model of the hardware-aware model selection and the initialization      *)
(* cascade of backend/services/ai_service.py (AIService) and of the        *)
(* helper print_selected_model.py.                                         *)
(*                                                                         *)
(* Strings are sequences of one-character strings, so that the regular     *)
(* expressions and the case conversions of the code are computed, not      *)
(* assumed.  File sizes are exact byte counts written as <<g, r>>, meaning *)
(* g * 10^9 + r bytes with 0 <= r < 10^9 (Python integers are unbounded).  *)
(***************************************************************************)
EXTENDS Integers, Sequences, FiniteSets, TLC

VARIABLES
    model_dir,        \* directory that is scanned (path prefix of every model file)
    files,            \* os.listdir(model_dir) in enumeration order: [name, size]
    vram_mb,          \* what nvidia-smi reports (0 when it fails)
    preferred_model,  \* LLM_MODEL, stripped
    helper,           \* "ok": print_selected_model.py runs; "none": missing or failed
    cfg,              \* hardware_config.json: [gpu_layers, n_ctx], or NoConfig
    pc,               \* position in the operation under way
    models,           \* result of _discover_models
    within_size,      \* the local within_size of the last selection (the scored models)
    selected,         \* outcome of the selection
    thresholds,       \* the locals target_rank and max_params_b computed from vram_mb
    model_path,       \* the local model_path of _initialize_llm
    attempts,         \* the try_init calls made so far: [path, ctx, gpu, ok]
    alt_models,       \* the part of the sorted alt_models the loop has not visited yet
    llm,              \* self.llm: 0 for None, else the number of the attempt that made it
    model_name,       \* self.model_name
    log,              \* the lines given to the logger
    q_in, q_out,      \* get_quant_rank: argument and result
    p_in, p_out,      \* detect_params_b: argument [name, size] and result
    dir_state,        \* the model directory: "ok", "missing", or "error" (listing raises)
    smi,              \* the run of nvidia-smi: [state, returncode, stdout]
    probe_out,        \* result of _get_gpu_vram_mb
    question,         \* the question given to process_question
    response,         \* what process_question returned
    tpc,              \* per thread: its position in the import of backend.blueprints.ai
    ai_module,        \* sys.modules entry of backend.blueprints.ai
    component_name,   \* _detect_component_type: the component name
    text,             \* the text given to the classifier and to the extraction
    detected,         \* result of _detect_component_type
    component_type,   \* the type given to _extract_component_specifications
    specs,            \* result of _extract_component_specifications
    raw_text,         \* the text _extract_text_from_pdf returned for the document
    entry,            \* the caller of the scraping pipeline: "summary" or "download"
    LLM_INSTANCE,     \* app.py _LLM_INSTANCE: 0 for None, else the number of the instance
    LLM_LOCK,         \* app.py _LLM_LOCK: "free" or the thread that holds it
    AGENT_EXECUTOR,   \* app.py _AGENT_EXECUTOR: 0 for None, else the number of the executor
    AGENT_LOCK,       \* app.py _AGENT_LOCK: "free" or the thread that holds it
    made,             \* how many LlamaCpp instances and agent executors were constructed
    call,             \* per thread: the function it called, "get_llm" or "get_agent"
    lpc,              \* per thread: its position in get_llm / get_agent
    local_llm,        \* per thread: the local llm of get_agent
    ret,              \* per thread: what its call returned (0 before, and when it raised)
    progress_queue,   \* ai_ask_stream.generate: the messages in progress_queue
    processing_done,  \* the Event processing_done
    error_occurred,   \* the Event error_occurred
    result_data,      \* the nonlocal result_data: 0 for None, 1 for the dict returned
    enqueued,         \* how many progress messages the worker has put in the queue
    wpc,              \* position of the worker thread (process_ai_request)
    gpc,              \* position of the generator
    events            \* the events the generator has yielded

env == <<model_dir, files, vram_mb, preferred_model, helper, cfg>>
sel == <<models, within_size, selected>>
fns == <<thresholds, q_in, q_out, p_in, p_out>>
casc == <<model_path, attempts, alt_models, llm, model_name, log>>

aux == <<dir_state, smi, probe_out, question, response, tpc, ai_module,
         component_name, text, detected, component_type, specs>>

pipe == <<raw_text, entry>>

legacy == <<LLM_INSTANCE, LLM_LOCK, AGENT_EXECUTOR, AGENT_LOCK, made, call, lpc,
            local_llm, ret>>

stream == <<progress_queue, processing_done, error_occurred, result_data, enqueued,
            wpc, gpc, events>>

more == <<pipe, legacy, stream>>

vars == <<env, pc, sel, fns, casc, aux, more>>

(***************************************************************************)
(* Bounds of the model.                                                    *)
(***************************************************************************)
MaxModels == 3

(***************************************************************************)
(* Characters and strings.                                                 *)
(***************************************************************************)
UpperChars == <<"A","B","C","D","E","F","G","H","I","J","K","L","M",
                "N","O","P","Q","R","S","T","U","V","W","X","Y","Z">>
LowerChars == <<"a","b","c","d","e","f","g","h","i","j","k","l","m",
                "n","o","p","q","r","s","t","u","v","w","x","y","z">>
Digits == <<"0","1","2","3","4","5","6","7","8","9">>

DigitSet == {Digits[i] : i \in 1..10}
LowerSet == {LowerChars[i] : i \in 1..26}
UpperSet == {UpperChars[i] : i \in 1..26}

IsDigit(c) == c \in DigitSet
IsLowerAZ(c) == c \in LowerSet

\* int() of one decimal digit
DigitValOf == [c \in DigitSet |-> (CHOOSE i \in 1..10 : Digits[i] = c) - 1]
DigitVal(c) == DigitValOf[c]

LowerOf == [c \in UpperSet |-> LowerChars[CHOOSE i \in 1..26 : UpperChars[i] = c]]
UpperOf == [c \in LowerSet |-> UpperChars[CHOOSE i \in 1..26 : LowerChars[i] = c]]

LowerChar(c) == IF c \in UpperSet THEN LowerOf[c] ELSE c
UpperChar(c) == IF c \in LowerSet THEN UpperOf[c] ELSE c

\* str.lower(), str.upper()
Lower(s) == [i \in 1..Len(s) |-> LowerChar(s[i])]
Upper(s) == [i \in 1..Len(s) |-> UpperChar(s[i])]

\* str.startswith, str.endswith
StartsWith(s, p) == Len(p) <= Len(s) /\ SubSeq(s, 1, Len(p)) = p
EndsWith(s, p) == Len(p) <= Len(s) /\ SubSeq(s, Len(s) - Len(p) + 1, Len(s)) = p

\* p in s (substring)
Contains(s, p) == \E i \in 1..(Len(s) - Len(p) + 1) : SubSeq(s, i, i + Len(p) - 1) = p

\* character i of s, or "" past the end
At(s, i) == IF i >= 1 /\ i <= Len(s) THEN s[i] ELSE ""

\* what \s and str.strip() take for whitespace, of the characters of the model
Whitespace == {" ", "\n", "\t"}

\* os.path.join(model_dir, name): model_dir ends with the separator
JoinPath(dir, name) == dir \o name

\* os.path.basename
Basename(path) ==
    IF \E i \in 1..Len(path) : path[i] = "/"
    THEN LET last == CHOOSE i \in 1..Len(path) :
                        path[i] = "/" /\ \A j \in (i+1)..Len(path) : path[j] # "/"
         IN SubSeq(path, last + 1, Len(path))
    ELSE path

(***************************************************************************)
(* File sizes: <<g, r>> is g * 10^9 + r bytes.                             *)
(***************************************************************************)
SizeGT(a, b) == a[1] > b[1] \/ (a[1] = b[1] /\ a[2] > b[2])
SizeLE(a, b) == ~SizeGT(a, b)

\* the least element of a non-empty set of positions: the leftmost match
First(hits) == CHOOSE h \in hits : \A k \in hits : h <= k
Last(hits) == CHOOSE h \in hits : \A k \in hits : k <= h

(***************************************************************************)
(* detect_quant: re.search(r'(q[0-9](?:_[a-z])?(?:_[a-z])?|f16|f32)',      *)
(* file_name.lower()), the group upper-cased, '' when nothing matches.     *)
(***************************************************************************)
\* (?:_[a-z])? at position i: the number of characters it takes
OptSuffixLen(s, i) == IF At(s, i) = "_" /\ IsLowerAZ(At(s, i + 1)) THEN 2 ELSE 0

\* length of the match of the pattern that starts at position i of s, 0 if none
QuantMatchLen(s, i) ==
    IF At(s, i) = "q" /\ IsDigit(At(s, i + 1))
    THEN 2 + OptSuffixLen(s, i + 2) + OptSuffixLen(s, i + 2 + OptSuffixLen(s, i + 2))
    ELSE IF At(s, i) = "f" /\ At(s, i + 1) = "1" /\ At(s, i + 2) = "6" THEN 3
    ELSE IF At(s, i) = "f" /\ At(s, i + 1) = "3" /\ At(s, i + 2) = "2" THEN 3
    ELSE 0

QuantHits(s) == {i \in 1..Len(s) : QuantMatchLen(s, i) > 0}

QuantGroup(s, hits) ==
    IF hits = {} THEN <<>>
    ELSE Upper(SubSeq(s, First(hits), First(hits) + QuantMatchLen(s, First(hits)) - 1))

QuantSearch(s) == QuantGroup(s, QuantHits(s))

detect_quant(file_name) == QuantSearch(Lower(file_name))

(***************************************************************************)
(* get_quant_rank.  The argument is [none |-> TRUE] for a missing tag      *)
(* (Python None) and [none |-> FALSE, v |-> tag] otherwise.                *)
(***************************************************************************)
quant_rank ==
    { [tag |-> <<"F","3","2">>,             rank |-> 7],
      [tag |-> <<"F","1","6">>,             rank |-> 6],
      [tag |-> <<"Q","8","_","0">>,         rank |-> 5],
      [tag |-> <<"Q","6","_","K">>,         rank |-> 4],
      [tag |-> <<"Q","5","_","K","_","M">>, rank |-> 3],
      [tag |-> <<"Q","5","_","K">>,         rank |-> 3],
      [tag |-> <<"Q","5","_","0">>,         rank |-> 3],
      [tag |-> <<"Q","4","_","K","_","M">>, rank |-> 2],
      [tag |-> <<"Q","4","_","K","_","S">>, rank |-> 2],
      [tag |-> <<"Q","4","_","0">>,         rank |-> 2],
      [tag |-> <<"Q","3","_","K">>,         rank |-> 1],
      [tag |-> <<"Q","2","_","K">>,         rank |-> 0] }

Tag(v) == [none |-> FALSE, v |-> v]
NoTag == [none |-> TRUE, v |-> <<>>]

\* q = (q or '').upper()
NormalTag(q) == Upper(IF q.none THEN <<>> ELSE q.v)

\* lines 284-297: the prefix rule and the default
PrefixOrDefault(u) ==
    IF StartsWith(u, <<"Q","8">>) THEN 5
    ELSE IF StartsWith(u, <<"Q","6">>) THEN 4
    ELSE IF StartsWith(u, <<"Q","5">>) THEN 3
    ELSE IF StartsWith(u, <<"Q","4">>) THEN 2
    ELSE IF StartsWith(u, <<"Q","3">>) THEN 1
    ELSE IF StartsWith(u, <<"Q","2">>) THEN 0
    ELSE 2

RankOfNormal(u) ==
    IF \E e \in quant_rank : e.tag = u
    THEN (CHOOSE e \in quant_rank : e.tag = u).rank
    ELSE PrefixOrDefault(u)

\* the table without the prefix rule: a tag outside the table gets the default
RankOfNormalTableOnly(u) ==
    IF \E e \in quant_rank : e.tag = u
    THEN (CHOOSE e \in quant_rank : e.tag = u).rank
    ELSE 2

\* get_quant_rank without the prefix rule
get_quant_rank_table_only(q) == RankOfNormalTableOnly(NormalTag(q))

get_quant_rank(q) == RankOfNormal(NormalTag(q))

(***************************************************************************)
(* The VRAM thresholds of _select_best_model.                              *)
(***************************************************************************)
target_rank(vram) ==
    IF vram >= 20000 THEN 4
    ELSE IF vram >= 12000 THEN 3
    ELSE IF vram >= 8000 THEN 2
    ELSE IF vram >= 6000 THEN 1
    ELSE 0

\* max_params_b with the 4096 boundary exclusive
max_params_b_exclusive(vram) ==
    IF vram >= 16000 THEN 13
    ELSE IF vram >= 12000 THEN 12
    ELSE IF vram >= 8000 THEN 7
    ELSE IF vram >= 6000 THEN 7
    ELSE IF vram > 4096 THEN 4
    ELSE 3

max_params_b(vram) ==
    IF vram >= 16000 THEN 13
    ELSE IF vram >= 12000 THEN 12
    ELSE IF vram >= 8000 THEN 7
    ELSE IF vram >= 6000 THEN 7
    ELSE IF vram >= 4096 THEN 4
    ELSE 3

(***************************************************************************)
(* detect_params_b: re.search(r"(\d{1,2})b", basename.lower()), else the   *)
(* size buckets.                                                           *)
(***************************************************************************)
\* number of digits of the match of (\d{1,2})b that starts at position i, 0 if none
ParamsMatchLen(s, i) ==
    IF IsDigit(At(s, i)) /\ IsDigit(At(s, i + 1)) /\ At(s, i + 2) = "b" THEN 2
    ELSE IF IsDigit(At(s, i)) /\ At(s, i + 1) = "b" THEN 1
    ELSE 0

ParamsHits(s) == {i \in 1..Len(s) : ParamsMatchLen(s, i) > 0}

\* int(m.group(1)) for the match that starts at position i
ParamsGroup(s, i) ==
    IF ParamsMatchLen(s, i) = 2
    THEN 10 * DigitVal(s[i]) + DigitVal(s[i + 1])
    ELSE DigitVal(s[i])

\* lines 335-342: the size buckets
SizeBucket(size) ==
    IF SizeGT(size, <<6, 0>>) THEN 12
    ELSE IF SizeGT(size, <<3, 0>>) THEN 7
    ELSE IF SizeGT(size, <<1, 800000000>>) THEN 4
    ELSE 3

\* the size buckets with >= where the code has >
SizeBucketInclusive(size) ==
    IF ~SizeGT(<<6, 0>>, size) THEN 12
    ELSE IF ~SizeGT(<<3, 0>>, size) THEN 7
    ELSE IF ~SizeGT(<<1, 800000000>>, size) THEN 4
    ELSE 3

ParamsFrom(name, hits, size) ==
    IF hits # {} THEN ParamsGroup(name, First(hits)) ELSE SizeBucket(size)

ParamsFromInclusive(name, hits, size) ==
    IF hits # {} THEN ParamsGroup(name, First(hits)) ELSE SizeBucketInclusive(size)

ParamsOfName(name, size) == ParamsFrom(name, ParamsHits(name), size)
ParamsOfNameInclusive(name, size) == ParamsFromInclusive(name, ParamsHits(name), size)

\* detect_params_b with inclusive size buckets
detect_params_b_inclusive(path, size) == ParamsOfNameInclusive(Lower(Basename(path)), size)

detect_params_b(path, size) == ParamsOfName(Lower(Basename(path)), size)

(***************************************************************************)
(* _discover_models and its pair_mmproj.                                   *)
(***************************************************************************)
NoPath == <<>>

\* positions of the dots of name that have a character other than a dot before them
ExtDots(name) ==
    {i \in 1..Len(name) : name[i] = "." /\ \E j \in 1..(i - 1) : name[j] # "."}

CutBefore(s, cuts, pick(_)) == IF cuts = {} THEN s ELSE SubSeq(s, 1, pick(cuts) - 1)

\* os.path.splitext(name)[0]: the name up to its last dot (leading dots do not count)
SplitextRoot(name) == CutBefore(name, ExtDots(name), Last)

\* re.split(r'[\.-]', base)[0]
BaseToken(base) ==
    CutBefore(base, {i \in 1..Len(base) : base[i] = "." \/ base[i] = "-"}, First)

MmprojHits(base_token, mmproj_files) ==
    {i \in 1..Len(mmproj_files) : Contains(Lower(Basename(mmproj_files[i])), base_token)}

FirstFile(hits, mmproj_files) == IF hits = {} THEN NoPath ELSE mmproj_files[First(hits)]

pair_mmproj(gguf_path, mmproj_files) ==
    FirstFile(MmprojHits(BaseToken(Lower(SplitextRoot(Basename(gguf_path)))),
                         mmproj_files),
              mmproj_files)

IsGguf(f) == EndsWith(Lower(f.name), <<".","g","g","u","f">>)
IsMmproj(f) == ~IsGguf(f) /\ EndsWith(Lower(f.name), <<".","m","m","p","r","o","j">>)

RECURSIVE Paths(_, _)
Paths(dir, fs) ==
    IF fs = <<>> THEN <<>> ELSE <<JoinPath(dir, Head(fs).name)>> \o Paths(dir, Tail(fs))

ModelRecord(full, size, mmproj_files) ==
    [gguf_path |-> full,
     file_size |-> size,
     quant |-> detect_quant(full),
     mmproj_path |-> pair_mmproj(full, mmproj_files)]

RECURSIVE ModelRecords(_, _, _)
ModelRecords(dir, gguf, mmproj_files) ==
    IF gguf = <<>> THEN <<>>
    ELSE <<ModelRecord(JoinPath(dir, Head(gguf).name), Head(gguf).size, mmproj_files)>>
         \o ModelRecords(dir, Tail(gguf), mmproj_files)

\* dir is a directory and listing is os.listdir(dir), every entry a regular file
DiscoverModels(dir, listing) ==
    ModelRecords(dir, SelectSeq(listing, IsGguf), Paths(dir, SelectSeq(listing, IsMmproj)))

(***************************************************************************)
(* _select_best_model.                                                     *)
(***************************************************************************)
NoModel == [gguf_path |-> NoPath, file_size |-> <<0, 0>>, quant |-> <<>>,
            mmproj_path |-> NoPath]

ParamsOf(m) == detect_params_b(m.gguf_path, m.file_size)

\* line 345
Fitting(ms, max_b) == SelectSeq(ms, LAMBDA m : ParamsOf(m) <= max_b)

\* line 348
MinParamsB(ms) ==
    CHOOSE b \in {ParamsOf(ms[i]) : i \in 1..Len(ms)} :
        \A j \in 1..Len(ms) : b <= ParamsOf(ms[j])

\* the largest instead of the smallest
MaxParamsB(ms) ==
    CHOOSE b \in {ParamsOf(ms[i]) : i \in 1..Len(ms)} :
        \A j \in 1..Len(ms) : b >= ParamsOf(ms[j])

\* line 349
WithParams(ms, b) == SelectSeq(ms, LAMBDA m : ParamsOf(m) = b)

IfEmpty(fits, fallback) == IF fits # <<>> THEN fits ELSE fallback

\* WithinSize whose fallback keeps the largest models instead of the smallest
WithinSizeLargest(ms, vram) ==
    IfEmpty(Fitting(ms, max_params_b(vram)), WithParams(ms, MaxParamsB(ms)))

\* WithinSize whose fallback keeps every model
WithinSizeAll(ms, vram) == IfEmpty(Fitting(ms, max_params_b(vram)), ms)

\* lines 344-349: the models that are scored
WithinSize(ms, vram) ==
    IfEmpty(Fitting(ms, max_params_b(vram)), WithParams(ms, MinParamsB(ms)))

\* line 355
Closeness(rank, target) == IF rank >= target THEN target - rank ELSE rank - target

\* lines 352-359: the tuple (params_b, closeness, size, m) of a model
Candidate(m, vram) ==
    <<ParamsOf(m), Closeness(get_quant_rank(Tag(m.quant)), target_rank(vram)),
      m.file_size, m>>

RECURSIVE Candidates(_, _)
Candidates(within, vram) ==
    IF within = <<>> THEN <<>>
    ELSE <<Candidate(Head(within), vram)>> \o Candidates(Tail(within), vram)

\* comparison of the sort keys (x[0], x[1], x[2]): a > b
KeyGT(a, b) ==
    \/ a[1] > b[1]
    \/ a[1] = b[1] /\ a[2] > b[2]
    \/ a[1] = b[1] /\ a[2] = b[2] /\ SizeGT(a[3], b[3])

\* list.sort(key=..., reverse=True): descending and stable
RECURSIVE InsertDesc(_, _)
InsertDesc(x, sorted) ==
    IF sorted = <<>> THEN <<x>>
    ELSE IF KeyGT(Head(sorted), x)
         THEN <<Head(sorted)>> \o InsertDesc(x, Tail(sorted))
         ELSE <<x>> \o sorted

\* the sort without reverse=True: ascending and stable
RECURSIVE InsertAsc(_, _)
InsertAsc(x, sorted) ==
    IF sorted = <<>> THEN <<x>>
    ELSE IF KeyGT(x, Head(sorted))
         THEN <<Head(sorted)>> \o InsertAsc(x, Tail(sorted))
         ELSE <<x>> \o sorted

RECURSIVE SortCandidatesAscending(_)
SortCandidatesAscending(cs) ==
    IF cs = <<>> THEN <<>>
    ELSE InsertAsc(Head(cs), SortCandidatesAscending(Tail(cs)))

RECURSIVE SortCandidates(_)
SortCandidates(cs) ==
    IF cs = <<>> THEN <<>>
    ELSE InsertDesc(Head(cs), SortCandidates(Tail(cs)))

\* lines 361-365: models[0] if nothing was scored, else the model of the first tuple
BestCandidate(candidates, ms) ==
    IF candidates = <<>> THEN ms[1] ELSE candidates[1][4]

\* lines 344-365 (and select_model lines 131-148): filter, score, sort, take the first
BestOf(ms, vram) ==
    BestCandidate(SortCandidates(Candidates(WithinSize(ms, vram), vram)), ms)

\* lines 258-262: the models whose basename starts with the preference
PreferredHits(ms, preferred) ==
    {i \in 1..Len(ms) :
        StartsWith(Lower(Basename(ms[i].gguf_path)), Lower(preferred))}

Ok(m) == [kind |-> "ok", model |-> m]
Raised(e) == [kind |-> e, model |-> NoModel]

\* the heuristic part; min() of an empty sequence raises ValueError
Heuristic(ms, vram) == IF ms = <<>> THEN Raised("ValueError") ELSE Ok(BestOf(ms, vram))

PreferredOr(ms, preferred, hits, other) ==
    IF preferred # <<>> /\ hits # {} THEN Ok(ms[First(hits)]) ELSE other

\* a preference that names no model is an error
StrictOr(preferred, other) == IF preferred # <<>> THEN Raised("LookupError") ELSE other

\* _select_best_model that fails when the preference names no model
select_best_model_strict(ms, preferred, vram) ==
    PreferredOr(ms, preferred, PreferredHits(ms, preferred),
                StrictOr(preferred, Heuristic(ms, vram)))

select_best_model(ms, preferred, vram) ==
    PreferredOr(ms, preferred, PreferredHits(ms, preferred), Heuristic(ms, vram))

(***************************************************************************)
(* The helper script print_selected_model.py and the backend's reading of  *)
(* its output.                                                             *)
(***************************************************************************)
RECURSIVE HelperRecords(_, _)
HelperRecords(dir, gguf) ==
    IF gguf = <<>> THEN <<>>
    ELSE << [gguf_path |-> JoinPath(dir, Head(gguf).name),
             file_size |-> Head(gguf).size,
             quant |-> detect_quant(Head(gguf).name),
             mmproj_path |-> NoPath] >> \o HelperRecords(dir, Tail(gguf))

\* discover_models: the quantization tag is taken from the bare file name
discover_models(dir, listing) == HelperRecords(dir, SelectSeq(listing, IsGguf))

\* select_model: the selection without a preference
select_model(ms, vram) == Heuristic(ms, vram)

\* main: the name printed after "Selected model:"
NoneFound == <<"<","n","o","n","e",">">>
Printed(ms, vram) ==
    IF ms = <<>> THEN NoneFound ELSE Basename(select_model(ms, vram).model.gguf_path)

HelperPrints(dir, listing, vram) == Printed(discover_models(dir, listing), vram)

\* lines 183-191: placeholder outputs are ignored; NoPath stands for None
AcceptedName(name) ==
    IF name # <<>> /\ ~Contains(Lower(name), <<"n","o","n","e">>) THEN name ELSE NoPath

\* _get_preselected_model_filename
get_preselected_model_filename(h, dir, listing, vram) ==
    IF h # "ok" THEN NoPath ELSE AcceptedName(HelperPrints(dir, listing, vram))

(***************************************************************************)
(* The inputs: directories, files, VRAM values, preferences.               *)
(***************************************************************************)
ModelDirs == { <<"/","m","/">>, <<"/","q","8","/">> }

File(name, size) == [name |-> name, size |-> size]

FilePool ==
    { File(<<"a","-","4","b","-","q","4","_","k","_","m",".","g","g","u","f">>,
           <<2, 500000000>>),
      File(<<"b","-","7","b","-","q","5","_","k","_","m",".","g","g","u","f">>,
           <<4, 500000000>>),
      File(<<"c","-","1","3","b","-","q","2","_","k",".","g","g","u","f">>,
           <<7, 0>>),
      File(<<"B","-","7","B","-","Q","3","_","K",".","G","G","U","F">>,
           <<4, 500000000>>),
      File(<<"t","i","n","y","-","q","8","_","0",".","g","g","u","f">>,
           <<1, 800000000>>),
      File(<<"b","i","g",".","f","1","6",".","g","g","u","f">>,
           <<6, 1>>) }

\* directory listings: up to MaxModels files, in any enumeration order
Listings ==
    UNION { {l \in [1..n -> FilePool] : \A i, j \in 1..n : i # j => l[i] # l[j]} :
            n \in 0..MaxModels }

VramValues == {0, 4096, 6000, 10000, 12000, 20000}

Preferences == { <<>>, <<"B">>, <<"z">> }

NoSelection == [kind |-> "none", model |-> NoModel]
\* the value of q_out and p_out before the function has run
NoTagResult == 0 - 1
NoFile == File(<<>>, <<0, 0>>)

NoThresholds == [target_rank |-> -1, max_params_b |-> -1]
DefaultConfig == [present |-> FALSE, gpu_layers |-> 0, n_ctx |-> 0]

\* variables that an operation does not touch, at their values after construction
SelectionIdle ==
    /\ models = <<>> /\ within_size = <<>> /\ selected = NoSelection
CascadeIdle ==
    /\ helper = "none" /\ cfg = DefaultConfig
    /\ model_path = NoPath /\ attempts = <<>> /\ alt_models = <<>>
    /\ llm = 0 /\ model_name = NoPath /\ log = <<>>
FunctionsIdle ==
    /\ thresholds = NoThresholds
    /\ q_in = NoTag /\ q_out = NoTagResult
    /\ p_in = NoFile /\ p_out = NoTagResult
DirectoryIdle ==
    /\ model_dir = <<"/","m","/">> /\ files = <<>> /\ preferred_model = <<>>

\* the threads of the process
Threads == {"t1", "t2", "t3"}

NoProbe == [state |-> "none", returncode |-> 0, stdout |-> <<>>]
NoResponse == [success |-> FALSE, message |-> "", answered |-> FALSE,
               model |-> <<>>, invoked |-> FALSE]
NoType == "None"
NoSpecs == [kind |-> "none", fields |-> <<>>]

ProbeIdle == smi = NoProbe /\ probe_out = NoTagResult
AskIdle == question = <<>> /\ response = NoResponse
ImportIdle == tpc = [t \in Threads |-> "idle"] /\ ai_module = "absent"
ScrapeIdle ==
    /\ component_name = <<>> /\ text = <<>> /\ detected = NoType
    /\ component_type = NoType /\ specs = NoSpecs
AuxIdle ==
    /\ dir_state = "ok" /\ ProbeIdle /\ AskIdle /\ ImportIdle /\ ScrapeIdle
PipeIdle == raw_text = <<>> /\ entry = "none"
LegacyIdle ==
    /\ LLM_INSTANCE = 0 /\ LLM_LOCK = "free" /\ AGENT_EXECUTOR = 0 /\ AGENT_LOCK = "free"
    /\ made = [llm |-> 0, agent |-> 0]
    /\ call = [t \in Threads |-> "none"] /\ lpc = [t \in Threads |-> "idle"]
    /\ local_llm = [t \in Threads |-> 0] /\ ret = [t \in Threads |-> 0]
StreamIdle ==
    /\ progress_queue = <<>> /\ processing_done = FALSE /\ error_occurred = FALSE
    /\ result_data = 0 /\ enqueued = 0 /\ wpc = "none" /\ gpc = "none" /\ events = <<>>
MoreIdle == PipeIdle /\ LegacyIdle /\ StreamIdle

(***************************************************************************)
(* SpecSelect: _select_best_model applied to a discovered catalog.         *)
(***************************************************************************)
InitSelect ==
    /\ model_dir \in ModelDirs
    /\ files \in Listings
    /\ vram_mb \in VramValues
    /\ preferred_model \in Preferences
    /\ pc = "select"
    /\ models = DiscoverModels(model_dir, files)
    /\ within_size = <<>>
    /\ selected = NoSelection
    /\ CascadeIdle
    /\ FunctionsIdle
    /\ AuxIdle
    /\ MoreIdle

\* the local within_size when the function returns (empty when it is never assigned)
WithinSizeLocal(ms, preferred, vram) ==
    IF (preferred # <<>> /\ PreferredHits(ms, preferred) # {}) \/ ms = <<>>
    THEN <<>>
    ELSE WithinSize(ms, vram)

Select ==
    /\ pc = "select"
    /\ selected' = select_best_model(models, preferred_model, vram_mb)
    /\ within_size' = WithinSizeLocal(models, preferred_model, vram_mb)
    /\ pc' = "selected"
    /\ UNCHANGED <<more, aux, env, models, fns, casc>>

NextSelect == Select

SpecSelect == InitSelect /\ [][NextSelect]_vars

(***************************************************************************)
(* SpecThresholds: the two threshold ladders (lines 299-324).              *)
(***************************************************************************)
MaxVramStep == 64

ThresholdVrams ==
    {500 * k : k \in 0..MaxVramStep}
    \cup {4095, 4096, 4097, 5999, 6001, 7999, 8001, 11999, 12001,
          15999, 16001, 19999, 20001}

InitThresholds ==
    /\ vram_mb \in ThresholdVrams
    /\ pc = "thresholds"
    /\ DirectoryIdle /\ SelectionIdle /\ CascadeIdle /\ FunctionsIdle /\ AuxIdle
    /\ MoreIdle

Thresholds ==
    /\ pc = "thresholds"
    /\ thresholds' = [target_rank |-> target_rank(vram_mb),
                      max_params_b |-> max_params_b(vram_mb)]
    /\ pc' = "done"
    /\ UNCHANGED <<more, aux, env, sel, casc, q_in, q_out, p_in, p_out>>

NextThresholds == Thresholds

SpecThresholds == InitThresholds /\ [][NextThresholds]_vars

(***************************************************************************)
(* SpecRank: get_quant_rank on tags.                                       *)
(***************************************************************************)
TagSuffixes ==
    { <<>>, <<"_","K">>, <<"_","0">>, <<"_","K","_","M">>, <<"_","K","_","S">>,
      <<"_","k","_","m">>, <<"_","1">> }

Tags ==
    { Tag(<<l, d>> \o x) : l \in {"Q", "q", "F", "X"}, d \in DigitSet, x \in TagSuffixes }
    \cup { Tag(<<"F","1","6">>), Tag(<<"F","3","2">>), Tag(<<"f","1","6">>),
           Tag(<<"F","1","6","_","K">>), Tag(<<"Q">>), Tag(<<"G","G","U","F">>),
           Tag(<<>>), NoTag }

InitRank ==
    /\ q_in \in Tags /\ q_out = NoTagResult
    /\ pc = "rank"
    /\ vram_mb = 0 /\ thresholds = NoThresholds
    /\ p_in = NoFile /\ p_out = NoTagResult
    /\ DirectoryIdle /\ SelectionIdle /\ CascadeIdle /\ AuxIdle
    /\ MoreIdle

Rank ==
    /\ pc = "rank"
    /\ q_out' = get_quant_rank(q_in)
    /\ pc' = "done"
    /\ UNCHANGED <<more, aux, env, sel, casc, thresholds, q_in, p_in, p_out>>

NextRank == Rank

SpecRank == InitRank /\ [][NextRank]_vars

(***************************************************************************)
(* SpecParams: detect_params_b on file names and sizes.                    *)
(***************************************************************************)
Gguf == <<".","g","g","u","f">>

ParamNames ==
    { <<"m">> \o Gguf,
      <<"a","-","7","b">> \o Gguf,
      <<"A","-","1","3","B","-","I","T">> \o Gguf,
      <<"x","-","1","2","3","b">> \o Gguf,
      <<"g","-","3","-","8","b">> \o Gguf,
      <<"b","1","2">> \o Gguf,
      <<"0","0","7","b">> \o Gguf,
      <<"1","b","2","b">> \o Gguf,
      <<"q","4","_","0">> \o Gguf,
      <<"p","h","i","-","2",".","Q","5">> \o Gguf }

ParamSizes ==
    { <<0, 0>>, <<1, 800000000>>, <<1, 800000001>>, <<3, 0>>, <<3, 1>>,
      <<6, 0>>, <<6, 1>>, <<7, 0>> }

InitParams ==
    /\ model_dir \in ModelDirs
    /\ p_in \in {File(n, z) : n \in ParamNames, z \in ParamSizes}
    /\ p_out = NoTagResult
    /\ pc = "params"
    /\ files = <<>> /\ preferred_model = <<>>
    /\ vram_mb = 0 /\ thresholds = NoThresholds
    /\ q_in = NoTag /\ q_out = NoTagResult
    /\ SelectionIdle /\ CascadeIdle /\ AuxIdle
    /\ MoreIdle

Params ==
    /\ pc = "params"
    /\ p_out' = detect_params_b(JoinPath(model_dir, p_in.name), p_in.size)
    /\ pc' = "done"
    /\ UNCHANGED <<more, aux, env, sel, casc, thresholds, q_in, q_out, p_in>>

NextParams == Params

SpecParams == InitParams /\ [][NextParams]_vars

(***************************************************************************)
(* Spec: AIService._initialize_llm, from the scan of the model directory   *)
(* to the end of the initialization cascade.                               *)
(***************************************************************************)
CascadePool ==
    { File(<<"a","-","4","b","-","q","4","_","k","_","m",".","g","g","u","f">>,
           <<2, 500000000>>),
      File(<<"b","-","7","b","-","q","5","_","k","_","m",".","g","g","u","f">>,
           <<4, 500000000>>),
      File(<<"B","-","7","B","-","Q","3","_","K",".","G","G","U","F">>,
           <<4, 500000000>>),
      File(<<"t","i","n","y","-","q","8","_","0",".","g","g","u","f">>,
           <<1, 800000000>>),
      File(<<"a",".","m","m","p","r","o","j">>,
           <<0, 5000>>) }

CascadeListings ==
    UNION { {l \in [1..n -> CascadePool] : \A i, j \in 1..n : i # j => l[i] # l[j]} :
            n \in 0..MaxModels }

CascadeVrams == {0, 8000}

\* hardware_config.json: absent, or its gpu_layers and n_ctx
Configs ==
    { DefaultConfig,
      [present |-> TRUE, gpu_layers |-> 0, n_ctx |-> 4096],
      [present |-> TRUE, gpu_layers |-> 20, n_ctx |-> 1024] }

\* lines 72-89: the locals gpu_layers and n_ctx
gpu_layers_of(c) == IF c.present THEN c.gpu_layers ELSE -1
n_ctx_of(c) == IF c.present THEN c.n_ctx ELSE 8192

Min(a, b) == IF a <= b THEN a ELSE b
Max(a, b) == IF a >= b THEN a ELSE b

\* reduced_ctx without the floor of 2048
reduced_ctx_no_floor(n_ctx) == Min(n_ctx, 4096)

\* line 130
reduced_ctx(n_ctx) == Max(Min(n_ctx, 4096), 2048)

\* alt_models left in the order of discovery
SortBySizeUnsorted(ms) == ms

\* sorted(models, key=file size): ascending and stable
RECURSIVE InsertBySize(_, _)
InsertBySize(x, sorted) ==
    IF sorted = <<>> THEN <<x>>
    ELSE IF SizeGT(x.file_size, Head(sorted).file_size)
         THEN <<Head(sorted)>> \o InsertBySize(x, Tail(sorted))
         ELSE <<x>> \o sorted

RECURSIVE SortBySize(_)
SortBySize(ms) ==
    IF ms = <<>> THEN <<>>
    ELSE InsertBySize(Head(ms), SortBySize(Tail(ms)))

\* lines 56-63: the models whose basename equals the helper's answer
PreselectedHits(ms, preselected) ==
    IF preselected = NoPath THEN {}
    ELSE {i \in 1..Len(ms) : Lower(Basename(ms[i].gguf_path)) = Lower(preselected)}

\* lines 57-67: the preselected model if the catalog has it, else the selector's choice
ChooseModel(ms, hits, preferred, vram) ==
    IF hits # {}
    THEN [via |-> "helper", outcome |-> Ok(ms[First(hits)]), within |-> <<>>]
    ELSE [via |-> "select",
          outcome |-> select_best_model(ms, preferred, vram),
          within |-> WithinSizeLocal(ms, preferred, vram)]

\* a call of try_init
Attempt(path, ctx, gpu, ok) == [path |-> path, ctx |-> ctx, gpu |-> gpu, ok |-> ok]

Init ==
    /\ model_dir = <<"/","m","/">>
    /\ files \in CascadeListings
    /\ vram_mb \in CascadeVrams
    /\ preferred_model \in Preferences
    /\ helper \in {"ok", "none"}
    /\ cfg \in Configs
    /\ pc = "discover"
    /\ SelectionIdle
    /\ FunctionsIdle
    /\ model_path = NoPath /\ attempts = <<>> /\ alt_models = <<>>
    /\ llm = 0 /\ model_name = NoPath /\ log = <<>>
    /\ AuxIdle
    /\ MoreIdle

\* lines 45-50
Discover ==
    /\ pc = "discover"
    /\ models' = DiscoverModels(model_dir, files)
    /\ IF models' = <<>>
       THEN /\ log' = Append(log, "warning: no models found")
            /\ pc' = "done"
       ELSE /\ log' = log
            /\ pc' = "select"
    /\ UNCHANGED <<more, aux, env, within_size, selected, fns, model_path, attempts, alt_models,
                   llm, model_name>>

\* lines 52-94: probe, helper preselection, selection, hardware configuration
SelectModel ==
    /\ pc = "select"
    /\ \E c \in { ChooseModel(models,
                     PreselectedHits(models,
                         get_preselected_model_filename(helper, model_dir, files, vram_mb)),
                     preferred_model, vram_mb) } :
          /\ selected' = c.outcome
          /\ within_size' = c.within
          /\ IF c.outcome.kind = "ok"
             THEN /\ model_path' = c.outcome.model.gguf_path
                  /\ model_name' = Basename(c.outcome.model.gguf_path)
                  /\ log' = log \o << IF c.via = "helper"
                                      THEN "info: using preselected model"
                                      ELSE "info: selected model",
                                      "info: initializing model" >>
                  /\ pc' = "primary"
             ELSE /\ model_path' = model_path
                  /\ model_name' = model_name
                  /\ log' = Append(log, "error: failed to initialize")
                  /\ pc' = "done"
    /\ UNCHANGED <<more, aux, env, models, fns, attempts, alt_models, llm>>

\* lines 115-119
TryPrimary ==
    /\ pc = "primary"
    /\ \E ok \in BOOLEAN :
          /\ attempts' = Append(attempts,
                Attempt(model_path, n_ctx_of(cfg), gpu_layers_of(cfg), ok))
          /\ IF ok
             THEN /\ llm' = Len(attempts')
                  /\ log' = Append(log, "info: initialized")
                  /\ pc' = "finish"
             ELSE /\ llm' = llm
                  /\ log' = Append(log, "error: primary init failed")
                  /\ pc' = "cpu"
    /\ UNCHANGED <<more, aux, env, sel, fns, model_path, alt_models, model_name>>

\* the CPU-only attempt without the logger.error of line 126
TryCpuOnlyUnlogged ==
    /\ pc = "cpu"
    /\ \E ok \in BOOLEAN :
          /\ attempts' = Append(attempts, Attempt(model_path, n_ctx_of(cfg), 0, ok))
          /\ IF ok
             THEN /\ llm' = Len(attempts')
                  /\ log' = log \o <<"info: retrying cpu-only", "info: initialized (cpu-only)">>
                  /\ pc' = "finish"
             ELSE /\ llm' = llm
                  /\ log' = log \o <<"info: retrying cpu-only">>
                  /\ pc' = "reduced"
    /\ UNCHANGED <<more, aux, env, sel, fns, model_path, alt_models, model_name>>

\* lines 120-126
TryCpuOnly ==
    /\ pc = "cpu"
    /\ \E ok \in BOOLEAN :
          /\ attempts' = Append(attempts, Attempt(model_path, n_ctx_of(cfg), 0, ok))
          /\ IF ok
             THEN /\ llm' = Len(attempts')
                  /\ log' = log \o <<"info: retrying cpu-only", "info: initialized (cpu-only)">>
                  /\ pc' = "finish"
             ELSE /\ llm' = llm
                  /\ log' = log \o <<"info: retrying cpu-only", "error: cpu-only init failed">>
                  /\ pc' = "reduced"
    /\ UNCHANGED <<more, aux, env, sel, fns, model_path, alt_models, model_name>>

\* lines 127-139
TryReducedContext ==
    /\ pc = "reduced"
    /\ \E ok \in BOOLEAN :
          LET note == IF reduced_ctx(n_ctx_of(cfg)) < n_ctx_of(cfg)
                      THEN <<"info: retrying with reduced context">> ELSE <<>>
          IN /\ attempts' = Append(attempts,
                   Attempt(model_path, reduced_ctx(n_ctx_of(cfg)), 0, ok))
             /\ IF ok
                THEN /\ llm' = Len(attempts')
                     /\ log' = log \o note \o <<"info: initialized (reduced context)">>
                     /\ alt_models' = alt_models
                     /\ pc' = "finish"
                ELSE /\ llm' = llm
                     /\ log' = log \o note \o <<"error: reduced-context init failed">>
                     /\ alt_models' = SortBySize(models)
                     /\ pc' = "alt"
    /\ UNCHANGED <<more, aux, env, sel, fns, model_path, model_name>>

\* lines 140-142: the loop passes over the model that was tried as primary
SkipPrimary ==
    /\ pc = "alt"
    /\ alt_models # <<>>
    /\ Head(alt_models).gguf_path = model_path
    /\ alt_models' = Tail(alt_models)
    /\ UNCHANGED <<more, aux, env, pc, sel, fns, model_path, attempts, llm, model_name, log>>

\* the loop body without the test of lines 141-142
TryAlternativeAny ==
    /\ pc = "alt"
    /\ alt_models # <<>>
    /\ LET alt_path == Head(alt_models).gguf_path
       IN /\ model_name' = Basename(alt_path)
          /\ \E ok \in BOOLEAN :
                /\ attempts' = Append(attempts,
                      Attempt(alt_path, reduced_ctx(n_ctx_of(cfg)), 0, ok))
                /\ IF ok
                   THEN /\ llm' = Len(attempts')
                        /\ log' = log \o <<"info: trying alternative model",
                                           "info: initialized (alternative model)">>
                        /\ model_path' = alt_path
                        /\ alt_models' = alt_models
                        /\ pc' = "finish"
                   ELSE /\ llm' = 0
                        /\ log' = log \o <<"info: trying alternative model",
                                           "error: alternative model init failed">>
                        /\ model_path' = model_path
                        /\ alt_models' = Tail(alt_models)
                        /\ pc' = "alt"
    /\ UNCHANGED <<more, aux, env, sel, fns>>

\* lines 143-153: one pass of the loop over alt_models
TryAlternative ==
    /\ pc = "alt"
    /\ alt_models # <<>>
    /\ Head(alt_models).gguf_path # model_path
    /\ LET alt_path == Head(alt_models).gguf_path
       IN /\ model_name' = Basename(alt_path)
          /\ \E ok \in BOOLEAN :
                /\ attempts' = Append(attempts,
                      Attempt(alt_path, reduced_ctx(n_ctx_of(cfg)), 0, ok))
                /\ IF ok
                   THEN /\ llm' = Len(attempts')
                        /\ log' = log \o <<"info: trying alternative model",
                                           "info: initialized (alternative model)">>
                        /\ model_path' = alt_path
                        /\ alt_models' = alt_models
                        /\ pc' = "finish"
                   ELSE /\ llm' = 0
                        /\ log' = log \o <<"info: trying alternative model",
                                           "error: alternative model init failed">>
                        /\ model_path' = model_path
                        /\ alt_models' = Tail(alt_models)
                        /\ pc' = "alt"
    /\ UNCHANGED <<more, aux, env, sel, fns>>

\* the loop over alt_models ends without a break
AlternativesExhausted ==
    /\ pc = "alt"
    /\ alt_models = <<>>
    /\ pc' = "finish"
    /\ UNCHANGED <<more, aux, env, sel, fns, casc>>

\* lines 157-158
Finish ==
    /\ pc = "finish"
    /\ log' = IF llm = 0 THEN Append(log, "error: no LLM, AI engine unavailable") ELSE log
    /\ pc' = "done"
    /\ UNCHANGED <<more, aux, env, sel, fns, model_path, attempts, alt_models, llm, model_name>>

Next ==
    \/ Discover
    \/ SelectModel
    \/ TryPrimary
    \/ TryCpuOnly
    \/ TryReducedContext
    \/ SkipPrimary
    \/ TryAlternative
    \/ AlternativesExhausted
    \/ Finish

Spec == Init /\ [][Next]_vars

(***************************************************************************)
(* SpecAsk: AIService.process_question on the service that the             *)
(* initialization left behind.                                             *)
(***************************************************************************)
Space == <<" ">>

\* line 388
datasheet_keywords ==
    << <<"d","a","t","a","s","h","e","e","t">>,
       <<"s","p","e","c">>,
       <<"s","p","e","c","i","f","i","c","a","t","i","o","n">>,
       <<"ö","z","e","l","l","i","k">>,
       <<"f","i","n","d">>,
       <<"s","e","a","r","c","h">>,
       <<"w","h","e","r","e"," ","c","a","n"," ","i"," ","f","i","n","d">> >>

\* line 389
is_datasheet_query(q) ==
    \E k \in 1..Len(datasheet_keywords) : Contains(Lower(q), datasheet_keywords[k])

\* model is data['model'] (NoPath for None, also when data is None); invoked tells
\* whether the answer is the output of self.llm.invoke
Response(success, message, model, invoked) ==
    [success |-> success, message |-> message, answered |-> TRUE,
     model |-> model, invoked |-> invoked]

Failure(message) == Response(FALSE, message, NoPath, FALSE)

\* lines 391-551: the datasheet flow; the handle is only used if there is one.
\* model_name starts as self.model_name (line 494) and is set to None only when
\* the invocation raises (line 505).
DatasheetFlow(handle, name, lookup_ok, invoke_ok) ==
    IF ~lookup_ok THEN Failure("Failed to process question")
    ELSE IF handle = 0 THEN Response(TRUE, "", name, FALSE)
    ELSE IF invoke_ok THEN Response(TRUE, "", name, TRUE)
    ELSE Response(TRUE, "", NoPath, FALSE)

\* lines 553-587: the flow of every other question
PlainFlow(handle, name, invoke_ok) ==
    IF handle = 0 THEN Failure("AI engine not available")
    ELSE IF invoke_ok THEN Response(TRUE, "", name, TRUE)
    ELSE Failure("AI engine not available")

\* lines 372-596
process_question(q, handle, name, lookup_ok, invoke_ok) ==
    IF is_datasheet_query(q)
    THEN DatasheetFlow(handle, name, lookup_ok, invoke_ok)
    ELSE PlainFlow(handle, name, invoke_ok)

QuestionWords ==
    { <<"h","i">>,
      <<"s","t","o","c","k","?">>,
      <<"r","e","S","P","E","C","t">>,
      <<"F","i","n","d">>,
      <<"l","m","3","1","7">>,
      <<"D","a","t","a","s","h","e","e","t">> }

Questions ==
    QuestionWords \cup { a \o Space \o b : a, b \in QuestionWords }

AskPool ==
    { File(<<"a","-","4","b","-","q","4","_","k","_","m",".","g","g","u","f">>,
           <<2, 500000000>>),
      File(<<"t","i","n","y","-","q","8","_","0",".","g","g","u","f">>,
           <<1, 800000000>>) }

AskListings ==
    UNION { {l \in [1..n -> AskPool] : \A i, j \in 1..n : i # j => l[i] # l[j]} :
            n \in 0..2 }

InitAsk ==
    /\ model_dir = <<"/","m","/">>
    /\ files \in AskListings
    /\ vram_mb = 0
    /\ preferred_model = <<>>
    /\ helper = "none"
    /\ cfg = DefaultConfig
    /\ pc = "discover"
    /\ SelectionIdle
    /\ FunctionsIdle
    /\ model_path = NoPath /\ attempts = <<>> /\ alt_models = <<>>
    /\ llm = 0 /\ model_name = NoPath /\ log = <<>>
    /\ AuxIdle
    /\ MoreIdle

\* a request reaches process_question after the service has been constructed
ProcessQuestion ==
    /\ pc \in {"done", "answered"}
    /\ \E q \in Questions, lookup_ok \in BOOLEAN, invoke_ok \in BOOLEAN :
          /\ question' = q
          /\ response' = process_question(q, llm, model_name, lookup_ok, invoke_ok)
    /\ pc' = "answered"
    /\ UNCHANGED <<more, env, sel, fns, casc, dir_state, smi, probe_out, tpc, ai_module,
                   component_name, text, detected, component_type, specs>>

NextAsk ==
    \/ Discover
    \/ SelectModel
    \/ TryPrimary
    \/ TryCpuOnly
    \/ TryReducedContext
    \/ SkipPrimary
    \/ TryAlternative
    \/ AlternativesExhausted
    \/ Finish
    \/ ProcessQuestion

SpecAsk == InitAsk /\ [][NextAsk]_vars

(***************************************************************************)
(* SpecImport: threads importing backend.blueprints.ai, whose module body  *)
(* constructs the one AIService of the process.  The interpreter runs a    *)
(* module body once: the first importer runs it, an importer that arrives  *)
(* meanwhile waits, a later one gets the module from sys.modules.          *)
(***************************************************************************)
InitImport ==
    /\ model_dir = <<"/","m","/">>
    /\ files \in AskListings
    /\ vram_mb = 0
    /\ preferred_model = <<>>
    /\ helper = "none"
    /\ cfg = DefaultConfig
    /\ pc = "import"
    /\ SelectionIdle
    /\ FunctionsIdle
    /\ model_path = NoPath /\ attempts = <<>> /\ alt_models = <<>>
    /\ llm = 0 /\ model_name = NoPath /\ log = <<>>
    /\ AuxIdle
    /\ MoreIdle

\* an import that runs the module body whether or not another thread is running it
ImportBeginUnguarded(t) ==
    /\ tpc[t] = "idle"
    /\ ai_module # "loaded"
    /\ ai_module' = "initializing"
    /\ tpc' = [tpc EXCEPT ![t] = "constructing"]
    /\ pc' = "discover"
    /\ UNCHANGED <<more, env, sel, fns, casc, dir_state, smi, probe_out, question, response,
                   component_name, text, detected, component_type, specs>>

\* blueprints/ai.py line 11 and 18: the import statement reaches the module
ImportBegin(t) ==
    /\ tpc[t] = "idle"
    /\ ai_module # "initializing"
    /\ IF ai_module = "absent"
       THEN /\ ai_module' = "initializing"
            /\ tpc' = [tpc EXCEPT ![t] = "constructing"]
            /\ pc' = "discover"
       ELSE /\ ai_module' = ai_module
            /\ tpc' = [tpc EXCEPT ![t] = "imported"]
            /\ pc' = pc
    /\ UNCHANGED <<more, env, sel, fns, casc, dir_state, smi, probe_out, question, response,
                   component_name, text, detected, component_type, specs>>

\* blueprints/ai.py line 18: AIService() has returned and the module body ends
ImportEnd(t) ==
    /\ tpc[t] = "constructing"
    /\ pc = "done"
    /\ ai_module' = "loaded"
    /\ tpc' = [tpc EXCEPT ![t] = "imported"]
    /\ UNCHANGED <<more, env, pc, sel, fns, casc, dir_state, smi, probe_out, question, response,
                   component_name, text, detected, component_type, specs>>

NextImport ==
    \/ \E t \in Threads : ImportBegin(t)
    \/ Discover
    \/ SelectModel
    \/ TryPrimary
    \/ TryCpuOnly
    \/ TryReducedContext
    \/ SkipPrimary
    \/ TryAlternative
    \/ AlternativesExhausted
    \/ Finish
    \/ \E t \in Threads : ImportEnd(t)

SpecImport == InitImport /\ [][NextImport]_vars

(***************************************************************************)
(* SpecProbe: _get_gpu_vram_mb on what the run of nvidia-smi gives.        *)
(***************************************************************************)
MaxLines == 2

\* str.strip() on a line (the lines of the model hold no other white space)
RECURSIVE LStrip(_)
LStrip(s) == IF s # <<>> /\ Head(s) \in Whitespace THEN LStrip(Tail(s)) ELSE s

RECURSIVE RStrip(_)
RStrip(s) == IF s # <<>> /\ s[Len(s)] \in Whitespace THEN RStrip(SubSeq(s, 1, Len(s) - 1)) ELSE s

Strip(s) == RStrip(LStrip(s))

\* line 247: [l.strip() for l in stdout.splitlines() if l.strip()]
RECURSIVE StrippedLines(_)
StrippedLines(out) ==
    IF out = <<>> THEN <<>>
    ELSE IF Strip(Head(out)) # <<>>
         THEN <<Strip(Head(out))>> \o StrippedLines(Tail(out))
         ELSE StrippedLines(Tail(out))

\* int(): an optional sign, then decimal digits
Unsigned(s) == IF s # <<>> /\ Head(s) \in {"+", "-"} THEN Tail(s) ELSE s

IsInt(s) == Unsigned(s) # <<>> /\ \A i \in 1..Len(Unsigned(s)) : IsDigit(Unsigned(s)[i])

RECURSIVE DigitsValue(_)
DigitsValue(d) ==
    IF d = <<>> THEN 0
    ELSE 10 * DigitsValue(SubSeq(d, 1, Len(d) - 1)) + DigitVal(d[Len(d)])

IntValue(s) == IF Head(s) = "-" THEN 0 - DigitsValue(Unsigned(s)) ELSE DigitsValue(Unsigned(s))

\* line 250 with the handler of line 251: int(lines[0]), or 0 when it raises
FirstLineOrZero(lines) ==
    IF lines = <<>> THEN 0
    ELSE IF IsInt(Head(lines)) THEN IntValue(Head(lines))
    ELSE 0

\* lines 239-253 (the helper's get_gpu_vram_mb, lines 17-29, is the same)
get_gpu_vram_mb(run) ==
    IF run.state = "missing" THEN 0
    ELSE IF run.returncode = 0 THEN FirstLineOrZero(StrippedLines(run.stdout))
    ELSE 0

SmiLines ==
    { <<>>,
      <<" "," ">>,
      <<"8","1","9","2">>,
      <<" ","4","0","9","6"," ">>,
      <<"0">>,
      <<"0","0","7">>,
      <<"+","5","1","2">>,
      <<"-","1">>,
      <<"N","/","A">>,
      <<"2","4","5","7","6"," ","M","i","B">> }

SmiOutputs == UNION { [1..n -> SmiLines] : n \in 0..MaxLines }

SmiRuns ==
    { [state |-> "missing", returncode |-> 0, stdout |-> <<>>] }
    \cup { [state |-> "ran", returncode |-> rc, stdout |-> out] :
           rc \in {0, 1, 9}, out \in SmiOutputs }

InitProbe ==
    /\ smi \in SmiRuns
    /\ probe_out = NoTagResult
    /\ pc = "probe"
    /\ vram_mb = 0
    /\ DirectoryIdle /\ SelectionIdle /\ CascadeIdle /\ FunctionsIdle
    /\ dir_state = "ok" /\ AskIdle /\ ImportIdle /\ ScrapeIdle
    /\ MoreIdle

Probe ==
    /\ pc = "probe"
    /\ probe_out' = get_gpu_vram_mb(smi)
    /\ pc' = "done"
    /\ UNCHANGED <<more, env, sel, fns, casc, dir_state, smi, question, response, tpc, ai_module,
                   component_name, text, detected, component_type, specs>>

NextProbe == Probe

SpecProbe == InitProbe /\ [][NextProbe]_vars

(***************************************************************************)
(* SpecDiscover: _discover_models on a directory that may be missing or    *)
(* may fail to be listed.                                                  *)
(***************************************************************************)
\* lines 195-237: not a directory gives [], an exception gives [], else the scan
discover_models_in(state, dir, listing) ==
    IF state = "ok" THEN DiscoverModels(dir, listing) ELSE <<>>

DiscoverPool ==
    { File(<<"a","-","4","b","-","q","4","_","k","_","m",".","g","g","u","f">>,
           <<2, 500000000>>),
      File(<<"P","r","o","-","7","b",".","Q","5",".","g","g","u","f">>,
           <<4, 500000000>>),
      File(<<"l","l","a","v","a",".","m","m","p","r","o","j">>,
           <<0, 600000000>>),
      File(<<"A","-","i","t",".","M","M","P","R","O","J">>,
           <<0, 700000000>>),
      File(<<"a",".","m","m","p","r","o","j">>,
           <<0, 5000>>),
      File(<<"n","o","t","e","s",".","t","x","t">>,
           <<0, 12>>) }

DiscoverListings ==
    UNION { {l \in [1..n -> DiscoverPool] : \A i, j \in 1..n : i # j => l[i] # l[j]} :
            n \in 0..MaxModels }

InitDiscover ==
    /\ model_dir \in ModelDirs
    /\ dir_state \in {"ok", "missing", "error"}
    /\ files \in DiscoverListings
    /\ dir_state = "missing" => files = <<>>
    /\ pc = "scan"
    /\ vram_mb = 0 /\ preferred_model = <<>>
    /\ SelectionIdle /\ CascadeIdle /\ FunctionsIdle
    /\ ProbeIdle /\ AskIdle /\ ImportIdle /\ ScrapeIdle
    /\ MoreIdle

Scan ==
    /\ pc = "scan"
    /\ models' = discover_models_in(dir_state, model_dir, files)
    /\ pc' = "done"
    /\ UNCHANGED <<more, aux, env, within_size, selected, fns, casc>>

NextDiscover == Scan

SpecDiscover == InitDiscover /\ [][NextDiscover]_vars

(***************************************************************************)
(* SpecDetect: WebScrapingService._detect_component_type.                  *)
(*                                                                         *)
(* The texts of the model are words of letters and digits separated by     *)
(* single spaces.  On such a text a pattern \b(a|b|...)\b finds a match    *)
(* exactly when one of the words is one of its alternatives, so a pattern  *)
(* is written as the set of its alternatives: a word, a literal followed   *)
(* by a run of digits (r\d{1,4}, lm\d+), or, where the source leaves the   *)
(* \b on one side only, a beginning, an end or a part of a word.           *)
(* Alternatives made of several words or holding other characters cannot   *)
(* match these texts and are left out.                                     *)
(***************************************************************************)
MaxWords == 2

Alt(kind, lit, lo, hi) == [kind |-> kind, lit |-> lit, lo |-> lo, hi |-> hi]

\* lines 920-1003, in the order of the dict
type_patterns ==
    <<
      [family |-> "Resistor",
       patterns |-> <<
           { Alt("word", <<"r","e","s","i","s","t","o","r">>, 0, 0),
             Alt("word", <<"r","e","s","i","s","t","a","n","c","e">>, 0, 0),
             Alt("num", <<"r">>, 1, 4) },
           { Alt("word", <<"o","h","m">>, 0, 0) },
           {},
           {} >>],
      [family |-> "Capacitor",
       patterns |-> <<
           { Alt("word", <<"c","a","p","a","c","i","t","o","r">>, 0, 0),
             Alt("word", <<"c","a","p","a","c","i","t","a","n","c","e">>, 0, 0),
             Alt("num", <<"c">>, 1, 4) },
           { Alt("word", <<"μ","f">>, 0, 0),
             Alt("word", <<"n","f">>, 0, 0),
             Alt("word", <<"p","f">>, 0, 0),
             Alt("word", <<"f","a","r","a","d">>, 0, 0) },
           { Alt("prefix", <<"e","l","e","c","t","r","o","l","y","t","i","c">>, 0, 0),
             Alt("inside", <<"c","e","r","a","m","i","c">>, 0, 0),
             Alt("suffix", <<"t","a","n","t","a","l","u","m">>, 0, 0) },
           { Alt("prefix", <<"e","s","r">>, 0, 0) } >>],
      [family |-> "Inductor",
       patterns |-> <<
           { Alt("word", <<"i","n","d","u","c","t","o","r">>, 0, 0),
             Alt("word", <<"c","o","i","l">>, 0, 0),
             Alt("word", <<"c","h","o","k","e">>, 0, 0),
             Alt("num", <<"l">>, 1, 4) },
           { Alt("word", <<"μ","h">>, 0, 0),
             Alt("word", <<"n","h">>, 0, 0),
             Alt("word", <<"m","h">>, 0, 0),
             Alt("word", <<"h","e","n","r","y">>, 0, 0) },
           {},
           { Alt("suffix", <<"d","c","r">>, 0, 0) } >>],
      [family |-> "Diode",
       patterns |-> <<
           { Alt("word", <<"d","i","o","d","e">>, 0, 0),
             Alt("word", <<"r","e","c","t","i","f","i","e","r">>, 0, 0) },
           { Alt("word", <<"v","f">>, 0, 0) },
           { Alt("word", <<"v","r">>, 0, 0) },
           { Alt("num", <<"1","n">>, 4, 4),
             Alt("word", <<"1","s","m","d">>, 0, 0),
             Alt("word", <<"s","c","h","o","t","t","k","y">>, 0, 0),
             Alt("word", <<"z","e","n","e","r">>, 0, 0) } >>],
      [family |-> "LED",
       patterns |-> <<
           { Alt("word", <<"l","e","d">>, 0, 0) },
           { Alt("word", <<"l","u","m","i","n","o","u","s">>, 0, 0),
             Alt("word", <<"b","r","i","g","h","t","n","e","s","s">>, 0, 0) },
           { Alt("word", <<"w","a","v","e","l","e","n","g","t","h">>, 0, 0),
             Alt("word", <<"n","m">>, 0, 0) },
           {} >>],
      [family |-> "Transistor",
       patterns |-> <<
           { Alt("word", <<"t","r","a","n","s","i","s","t","o","r">>, 0, 0),
             Alt("word", <<"B","J","T">>, 0, 0) },
           { Alt("word", <<"n","p","n">>, 0, 0),
             Alt("word", <<"p","n","p">>, 0, 0) },
           { Alt("word", <<"h","f","e">>, 0, 0),
             Alt("word", <<"b","e","t","a">>, 0, 0),
             Alt("word", <<"g","a","i","n">>, 0, 0) },
           { Alt("word", <<"c","o","l","l","e","c","t","o","r">>, 0, 0),
             Alt("word", <<"e","m","i","t","t","e","r">>, 0, 0),
             Alt("word", <<"b","a","s","e">>, 0, 0) } >>],
      [family |-> "MOSFET",
       patterns |-> <<
           { Alt("word", <<"m","o","s","f","e","t">>, 0, 0),
             Alt("word", <<"f","e","t">>, 0, 0) },
           {},
           { Alt("word", <<"v","g","s">>, 0, 0) },
           { Alt("word", <<"r","d","s">>, 0, 0) } >>],
      [family |-> "Voltage Regulator",
       patterns |-> <<
           { Alt("word", <<"r","e","g","u","l","a","t","o","r">>, 0, 0),
             Alt("word", <<"l","d","o">>, 0, 0) },
           { Alt("num", <<"7","8">>, 1, 0),
             Alt("num", <<"l","m">>, 1, 0),
             Alt("num", <<"m","c">>, 1, 0) },
           {},
           { Alt("word", <<"v","o","u","t">>, 0, 0) } >>],
      [family |-> "Op-Amp",
       patterns |-> <<
           { Alt("word", <<"o","p","a","m","p">>, 0, 0),
             Alt("word", <<"c","o","m","p","a","r","a","t","o","r">>, 0, 0) },
           { Alt("num", <<"l","m">>, 1, 0),
             Alt("num", <<"t","l">>, 1, 0),
             Alt("num", <<"a","d">>, 1, 0) },
           {},
           {} >>],
      [family |-> "Microcontroller",
       patterns |-> <<
           { Alt("word", <<"m","i","c","r","o","c","o","n","t","r","o","l","l","e","r">>, 0, 0),
             Alt("word", <<"m","i","c","r","o","p","r","o","c","e","s","s","o","r">>, 0, 0),
             Alt("word", <<"i","c">>, 0, 0),
             Alt("word", <<"c","h","i","p">>, 0, 0) },
           { Alt("word", <<"a","t","m","e","g","a">>, 0, 0),
             Alt("word", <<"p","i","c">>, 0, 0),
             Alt("word", <<"s","t","m","3","2">>, 0, 0),
             Alt("word", <<"e","s","p","3","2">>, 0, 0),
             Alt("word", <<"a","r","d","u","i","n","o">>, 0, 0) },
           { Alt("word", <<"f","l","a","s","h">>, 0, 0),
             Alt("word", <<"r","a","m">>, 0, 0),
             Alt("word", <<"e","e","p","r","o","m">>, 0, 0) },
           { Alt("word", <<"m","h","z">>, 0, 0),
             Alt("word", <<"c","l","o","c","k">>, 0, 0) } >>],
      [family |-> "Crystal",
       patterns |-> <<
           { Alt("word", <<"c","r","y","s","t","a","l">>, 0, 0),
             Alt("word", <<"o","s","c","i","l","l","a","t","o","r">>, 0, 0),
             Alt("word", <<"x","t","a","l">>, 0, 0) },
           { Alt("word", <<"h","z">>, 0, 0),
             Alt("word", <<"m","h","z">>, 0, 0) },
           {},
           {} >>],
      [family |-> "Relay",
       patterns |-> <<
           { Alt("word", <<"r","e","l","a","y">>, 0, 0),
             Alt("word", <<"s","w","i","t","c","h">>, 0, 0) },
           { Alt("word", <<"s","p","d","t">>, 0, 0),
             Alt("word", <<"d","p","d","t">>, 0, 0),
             Alt("word", <<"s","p","s","t">>, 0, 0) },
           {},
           {} >>],
      [family |-> "Transformer",
       patterns |-> <<
           { Alt("word", <<"t","r","a","n","s","f","o","r","m","e","r">>, 0, 0) },
           { Alt("word", <<"p","r","i","m","a","r","y">>, 0, 0),
             Alt("word", <<"s","e","c","o","n","d","a","r","y">>, 0, 0) },
           {},
           { Alt("word", <<"v","a">>, 0, 0),
             Alt("word", <<"w","a","t","t">>, 0, 0),
             Alt("word", <<"w","a","t","t","s">>, 0, 0) } >>],
      [family |-> "Sensor",
       patterns |-> <<
           { Alt("word", <<"s","e","n","s","o","r">>, 0, 0),
             Alt("word", <<"d","e","t","e","c","t","o","r">>, 0, 0) },
           { Alt("word", <<"t","e","m","p","e","r","a","t","u","r","e">>, 0, 0),
             Alt("word", <<"p","r","e","s","s","u","r","e">>, 0, 0),
             Alt("word", <<"m","o","t","i","o","n">>, 0, 0),
             Alt("word", <<"l","i","g","h","t">>, 0, 0) },
           { Alt("word", <<"a","n","a","l","o","g">>, 0, 0),
             Alt("word", <<"d","i","g","i","t","a","l">>, 0, 0),
             Alt("word", <<"i","2","c">>, 0, 0),
             Alt("word", <<"s","p","i">>, 0, 0) },
           {} >>] >>

AllDigits(d) == \A i \in 1..Len(d) : IsDigit(d[i])

\* the rest of the word after the literal of lit\d{lo,hi}
NumTail(tok, lit) == SubSeq(tok, Len(lit) + 1, Len(tok))

AltMatches(a, tok) ==
    CASE a.kind = "word" -> tok = a.lit
      [] a.kind = "prefix" -> StartsWith(tok, a.lit)
      [] a.kind = "inside" -> Contains(tok, a.lit)
      [] a.kind = "suffix" -> EndsWith(tok, a.lit)
      [] a.kind = "num" ->
            /\ StartsWith(tok, a.lit)
            /\ AllDigits(NumTail(tok, a.lit))
            /\ Len(NumTail(tok, a.lit)) >= a.lo
            /\ (a.hi = 0 \/ Len(NumTail(tok, a.lit)) <= a.hi)

\* the words of a text
RECURSIVE SplitWords(_, _)
SplitWords(s, cur) ==
    IF s = <<>> THEN (IF cur = <<>> THEN <<>> ELSE <<cur>>)
    ELSE IF Head(s) \in Whitespace
         THEN (IF cur = <<>> THEN <<>> ELSE <<cur>>) \o SplitWords(Tail(s), <<>>)
         ELSE SplitWords(Tail(s), Append(cur, Head(s)))

\* line 917
SearchText(name, txt) == Lower(name \o Space \o txt)

\* line 1010: re.search(pattern, search_text)
PatternMatches(pattern, toks) ==
    \E a \in pattern : \E i \in 1..Len(toks) : AltMatches(a, toks[i])

\* lines 1008-1011: one point for each pattern that is found
Score(patterns, toks) ==
    Cardinality({k \in 1..Len(patterns) : PatternMatches(patterns[k], toks)})

\* lines 1006-1013 (families with no point are not in the dict)
TypeScores(toks) == [i \in 1..Len(type_patterns) |-> Score(type_patterns[i].patterns, toks)]

\* max() that lets a later key of the same score replace the earlier one
RECURSIVE MaxKeyLast(_, _, _)
MaxKeyLast(sc, i, best) ==
    IF i > Len(sc) THEN best
    ELSE IF sc[i] > 0 /\ (best = 0 \/ sc[i] >= sc[best])
         THEN MaxKeyLast(sc, i + 1, i)
         ELSE MaxKeyLast(sc, i + 1, best)

\* line 1017: max(type_scores, key=type_scores.get) keeps the first key of the
\* largest score; 0 stands for the empty dict
RECURSIVE MaxKey(_, _, _)
MaxKey(sc, i, best) ==
    IF i > Len(sc) THEN best
    ELSE IF sc[i] > 0 /\ (best = 0 \/ sc[i] > sc[best])
         THEN MaxKey(sc, i + 1, i)
         ELSE MaxKey(sc, i + 1, best)

FamilyOf(i) == IF i = 0 THEN NoType ELSE type_patterns[i].family

\* lines 913-1023
detect_component_type(txt, name) ==
    FamilyOf(MaxKey(TypeScores(SplitWords(SearchText(name, txt), <<>>)), 1, 0))

DetectWords ==
    { <<"L","M","3","1","7">>,
      <<"r","e","g","u","l","a","t","o","r">>,
      <<"M","H","z">>,
      <<"c","r","y","s","t","a","l">>,
      <<"r","e","s","i","s","t","o","r">>,
      <<"O","h","m">>,
      <<"B","J","T">>,
      <<"n","p","n">>,
      <<"i","c">>,
      <<"c","e","r","a","m","i","c","s">>,
      <<"w","i","d","g","e","t">>,
      <<"R","1","0">> }

RECURSIVE JoinWords(_)
JoinWords(ws) ==
    IF ws = <<>> THEN <<>>
    ELSE IF Len(ws) = 1 THEN Head(ws)
    ELSE Head(ws) \o Space \o JoinWords(Tail(ws))

DetectTexts == { JoinWords(ws) : ws \in UNION { [1..n -> DetectWords] : n \in 0..MaxWords } }

InitDetect ==
    /\ component_name \in DetectWords \cup {<<>>}
    /\ text \in DetectTexts
    /\ detected = NoType /\ component_type = NoType /\ specs = NoSpecs
    /\ pc = "detect"
    /\ vram_mb = 0
    /\ DirectoryIdle /\ SelectionIdle /\ CascadeIdle /\ FunctionsIdle
    /\ dir_state = "ok" /\ ProbeIdle /\ AskIdle /\ ImportIdle
    /\ MoreIdle

Detect ==
    /\ pc = "detect"
    /\ detected' = detect_component_type(text, component_name)
    /\ pc' = "done"
    /\ UNCHANGED <<more, env, sel, fns, casc, dir_state, smi, probe_out, question, response,
                   tpc, ai_module, component_name, text, component_type, specs>>

NextDetect == Detect

SpecDetect == InitDetect /\ [][NextDetect]_vars

(***************************************************************************)
(* SpecExtract: WebScrapingService._extract_component_specifications for   *)
(* the types Voltage Regulator, Microcontroller and Sensor and for the     *)
(* generic rules of an unknown type.                                       *)
(*                                                                         *)
(* A rule is re.findall of (?i)(a|b|...)[:=]\s*([^\s,;]+), or of the same  *)
(* pattern with no group around the label, followed by a loop over the     *)
(* first matches.  The texts of the model hold no word that begins an      *)
(* alternative with .* in it (input.*voltage, ...), so those alternatives  *)
(* are left out; a rule whose alternatives all have that form has none.    *)
(***************************************************************************)
MaxItems == 2

\* use: "group2" is match[1] of a (label, value) tuple, "whole" is the matched
\* string itself, "char1" is match[1] of a matched string
Rule(field, alts, use, limit) ==
    [field |-> field, alts |-> alts, use |-> use, limit |-> limit]

\* lines 1297-1331
regulator_rules ==
    << Rule("Vin", << <<"v","i","n">> >>, "group2", 1),
       Rule("Vout", << <<"v","o","u","t">> >>, "group2", 1),
       Rule("Iout", << <<"i","o","u","t">> >>, "group2", 1),
       Rule("Dropout", <<>>, "group2", 1),
       Rule("Efficiency", << <<"e","f","f","i","c","i","e","n","c","y">> >>, "char1", 1),
       Rule("Iq", << <<"i","q">> >>, "group2", 1) >>

\* lines 1364-1396
microcontroller_rules ==
    << Rule("Vcc", << <<"v","c","c">> >>, "group2", 1),
       Rule("Frequency", <<>>, "group2", 1),
       Rule("Flash", << <<"f","l","a","s","h">> >>, "char1", 1),
       Rule("RAM", << <<"r","a","m">> >>, "char1", 1),
       Rule("EEPROM", << <<"e","e","p","r","o","m">> >>, "char1", 1),
       Rule("Temp Range", <<>>, "group2", 1) >>

\* lines 1475-1504
sensor_rules ==
    << Rule("Vcc", << <<"v","c","c">> >>, "group2", 1),
       Rule("Output", <<>>, "group2", 1),
       Rule("Range", << <<"r","a","n","g","e">> >>, "group2", 1),
       Rule("Sensitivity", << <<"s","e","n","s","i","t","i","v","i","t","y">> >>, "char1", 1),
       Rule("Accuracy", << <<"a","c","c","u","r","a","c","y">> >>, "char1", 1) >>

\* lines 1555-1579
generic_rules ==
    << Rule("Voltage", << <<"v","o","l","t","a","g","e">> >>, "whole", 2),
       Rule("Current", << <<"c","u","r","r","e","n","t">> >>, "whole", 2),
       Rule("Power", << <<"p","o","w","e","r">> >>, "whole", 1),
       Rule("Frequency", << <<"f","r","e","q","u","e","n","c","y">> >>, "whole", 1) >>

ExtractItems ==
    { <<"v","i","n","=","1","2","V">>,
      <<"V","o","u","t",":"," ","5","V">>,
      <<"e","f","f","i","c","i","e","n","c","y","=","8","5","%">>,
      <<"E","f","f","i","c","i","e","n","c","y",":","9">>,
      <<"f","l","a","s","h","=","3","2","K","B">>,
      <<"p","r","o","g","r","a","m","=","8">>,
      <<"a","c","c","u","r","a","c","y",":"," ","1","%">>,
      <<"r","a","n","g","e","=","0","-","1","0","0","C">>,
      <<"V","C","C","=","3",".","3","V">>,
      <<"v","o","l","t","a","g","e","=","5","V">>,
      <<"i","q","=">>,
      <<"p","o","w","e","r",":","2","W",";">> }

\* the literal at position p of the lower-cased text
LitAt(ls, p, lit) ==
    p + Len(lit) - 1 <= Len(ls) /\ SubSeq(ls, p, p + Len(lit) - 1) = lit

\* \s*
RECURSIVE SkipSpaces(_, _)
SkipSpaces(s, i) == IF i <= Len(s) /\ s[i] \in Whitespace THEN SkipSpaces(s, i + 1) ELSE i

\* [^\s,;]+ : the position after the run that starts at i
RECURSIVE RunEnd(_, _)
RunEnd(s, i) ==
    IF i <= Len(s) /\ s[i] \notin Whitespace \cup {",", ";"} THEN RunEnd(s, i + 1) ELSE i

ValueStart(s, p, lit) == SkipSpaces(s, p + Len(lit) + 1)

\* the pattern matches at p with this alternative
AltAt(s, ls, p, lit) ==
    /\ LitAt(ls, p, lit)
    /\ At(s, p + Len(lit)) \in {":", "="}
    /\ RunEnd(s, ValueStart(s, p, lit)) > ValueStart(s, p, lit)

AltsAt(s, ls, p, alts) == {k \in 1..Len(alts) : AltAt(s, ls, p, alts[k])}

MatchOf(s, p, lit) ==
    [label |-> SubSeq(s, p, p + Len(lit) - 1),
     value |-> SubSeq(s, ValueStart(s, p, lit), RunEnd(s, ValueStart(s, p, lit)) - 1),
     next |-> RunEnd(s, ValueStart(s, p, lit))]

\* re.findall: the matches from left to right, none overlapping another
RECURSIVE FindAll(_, _, _, _)
FindAll(s, ls, p, alts) ==
    IF p > Len(s) THEN <<>>
    ELSE IF AltsAt(s, ls, p, alts) = {} THEN FindAll(s, ls, p + 1, alts)
    ELSE <<MatchOf(s, p, alts[First(AltsAt(s, ls, p, alts))])>>
         \o FindAll(s, ls, MatchOf(s, p, alts[First(AltsAt(s, ls, p, alts))]).next, alts)

\* matches[:limit]
Take(ms, limit) == SubSeq(ms, 1, Min(limit, Len(ms)))

FirstMatches(rule, s) == Take(FindAll(s, Lower(s), 1, rule.alts), rule.limit)

\* match[1] of a string of fewer than two characters raises IndexError
RuleRaises(rule, ms) ==
    rule.use = "char1" /\ \E i \in 1..Len(ms) : Len(ms[i].value) < 2

\* what the f-string of the rule puts after the field label
Reported(rule, m) == IF rule.use = "char1" THEN <<m.value[2]>> ELSE m.value

Outcome(raised, fields) == [raised |-> raised, fields |-> fields]

RuleOutcome(rule, ms) ==
    IF RuleRaises(rule, ms) THEN Outcome(TRUE, <<>>)
    ELSE Outcome(FALSE, [i \in 1..Len(ms) |-> [field |-> rule.field,
                                               value |-> Reported(rule, ms[i])]])

\* the statements of an extractor run in order; an exception ends the function
Sequenced(first, rest) ==
    IF first.raised THEN first
    ELSE IF rest.raised THEN rest
    ELSE Outcome(FALSE, first.fields \o rest.fields)

RECURSIVE RunRules(_, _)
RunRules(rules, s) ==
    IF rules = <<>> THEN Outcome(FALSE, <<>>)
    ELSE Sequenced(RuleOutcome(Head(rules), FirstMatches(Head(rules), s)),
                   RunRules(Tail(rules), s))

\* lines 1032-1062, for the types of the model
RulesOf(ctype) ==
    CASE ctype = "Voltage Regulator" -> regulator_rules
      [] ctype = "Microcontroller" -> microcontroller_rules
      [] ctype = "Sensor" -> sensor_rules
      [] OTHER -> generic_rules

\* lines 1064-1068
SpecsOf(outcome) ==
    IF outcome.raised \/ outcome.fields = <<>> THEN NoSpecs
    ELSE [kind |-> "ok", fields |-> outcome.fields]

\* lines 1027-1068
extract_component_specifications(txt, ctype) == SpecsOf(RunRules(RulesOf(ctype), txt))

RECURSIVE JoinItems(_)
JoinItems(its) ==
    IF its = <<>> THEN <<>>
    ELSE IF Len(its) = 1 THEN Head(its)
    ELSE Head(its) \o <<",", " ">> \o JoinItems(Tail(its))

ExtractTexts == { JoinItems(its) : its \in UNION { [1..n -> ExtractItems] : n \in 0..MaxItems } }

ExtractTypes == {"Voltage Regulator", "Microcontroller", "Sensor", NoType}

InitExtract ==
    /\ text \in ExtractTexts
    /\ component_type \in ExtractTypes
    /\ component_name = <<>> /\ detected = NoType /\ specs = NoSpecs
    /\ pc = "extract"
    /\ vram_mb = 0
    /\ DirectoryIdle /\ SelectionIdle /\ CascadeIdle /\ FunctionsIdle
    /\ dir_state = "ok" /\ ProbeIdle /\ AskIdle /\ ImportIdle
    /\ MoreIdle

Extract ==
    /\ pc = "extract"
    /\ specs' = extract_component_specifications(text, component_type)
    /\ pc' = "done"
    /\ UNCHANGED <<more, env, sel, fns, casc, dir_state, smi, probe_out, question, response,
                   tpc, ai_module, component_name, text, detected, component_type>>

NextExtract == Extract

SpecExtract == InitExtract /\ [][NextExtract]_vars

(***************************************************************************)
(* SpecPipeline: the two callers of the classifier and of the extraction.  *)
(* generate_datasheet_summary gives the text of the document to            *)
(* _create_comprehensive_summary; the download functions give it to        *)
(* _extract_specs_from_pdf.                                                *)
(*                                                                         *)
(* A text is a sequence of characters; \s is one of the three characters   *)
(* of Whitespace and \w a letter, a digit or the underscore.               *)
(***************************************************************************)
MaxPieces == 3

IsWordChar(c) == IsDigit(c) \/ IsLowerAZ(LowerChar(c)) \/ c = "_"

\* line 821: re.sub(r'\s+', ' ', text)
RECURSIVE CollapseWhitespace(_)
CollapseWhitespace(s) ==
    IF s = <<>> THEN <<>>
    ELSE IF Head(s) \in Whitespace THEN <<" ">> \o CollapseWhitespace(LStrip(Tail(s)))
    ELSE <<Head(s)>> \o CollapseWhitespace(Tail(s))

\* \d+ : the number of digits from position i on
RECURSIVE DigitsFrom(_, _)
DigitsFrom(s, i) == IF IsDigit(At(s, i)) THEN 1 + DigitsFrom(s, i + 1) ELSE 0

\* .*?(?=\w) : the first word character from position i on, Len(s) + 1 if none
RECURSIVE NextWordChar(_, _)
NextWordChar(s, i) ==
    IF i > Len(s) \/ IsWordChar(s[i]) THEN i ELSE NextWordChar(s, i + 1)

\* Page \d+.*?(?=\w), ignoring case, at position p: the position after the match,
\* 0 when there is none.  With no word character after the digits the match gives
\* back the last digit, if it has two.
HeaderEnd(s, ls, p) ==
    IF ~LitAt(ls, p, <<"p","a","g","e"," ">>) \/ DigitsFrom(s, p + 5) = 0 THEN 0
    ELSE IF NextWordChar(s, p + 5 + DigitsFrom(s, p + 5)) <= Len(s)
         THEN NextWordChar(s, p + 5 + DigitsFrom(s, p + 5))
    ELSE IF DigitsFrom(s, p + 5) >= 2 THEN p + 5 + DigitsFrom(s, p + 5) - 1
    ELSE 0

\* line 823: re.sub(r'Page \d+.*?(?=\w)', '', text, flags=re.IGNORECASE)
RECURSIVE RemoveHeaders(_, _, _)
RemoveHeaders(s, ls, p) ==
    IF p > Len(s) THEN <<>>
    ELSE IF HeaderEnd(s, ls, p) > 0 THEN RemoveHeaders(s, ls, HeaderEnd(s, ls, p))
    ELSE <<s[p]>> \o RemoveHeaders(s, ls, p + 1)

\* /\d{1,2} with the slash at position q: the position after it, 0 when none
DateTail(s, q) ==
    IF At(s, q) = "/" /\ DigitsFrom(s, q + 1) >= 1
    THEN q + 1 + Min(DigitsFrom(s, q + 1), 2)
    ELSE 0

\* \d{1,2}/\d{1,2} at position p: two leading digits are tried before one
DateEnd(s, p) ==
    IF DigitsFrom(s, p) >= 2 /\ DateTail(s, p + 2) > 0 THEN DateTail(s, p + 2)
    ELSE IF DigitsFrom(s, p) >= 1 /\ DateTail(s, p + 1) > 0 THEN DateTail(s, p + 1)
    ELSE 0

\* line 824: re.sub(r'\d{1,2}/\d{1,2}', '', text)
RECURSIVE RemoveDates(_, _)
RemoveDates(s, p) ==
    IF p > Len(s) THEN <<>>
    ELSE IF DateEnd(s, p) > 0 THEN RemoveDates(s, DateEnd(s, p))
    ELSE <<s[p]>> \o RemoveDates(s, p + 1)

WithoutHeaders(s) == RemoveHeaders(s, Lower(s), 1)

\* lines 818-825
clean_text(s) == Strip(RemoveDates(WithoutHeaders(CollapseWhitespace(s)), 1))

\* pieces of a document: words, a labelled value, a date, a page header, a line break
Pieces ==
    { <<"r","e","g","u","l","a","t","o","r"," ">>,
      <<"v","i","n","=","1","2","V"," ">>,
      <<"v","o","l","t","a","g","e","=","1","/","2"," ">>,
      <<"1","/","2"," ">>,
      <<"P","a","g","e"," ","3"," ">>,
      <<"\n">>,
      <<"w","i","d","g","e","t"," ">> }

RECURSIVE Concat(_)
Concat(ps) == IF ps = <<>> THEN <<>> ELSE Head(ps) \o Concat(Tail(ps))

\* lines 110-111: _extract_text_from_pdf returns None for a text of whitespace only,
\* and both callers return at once for an empty text (lines 80, 625)
DocumentTexts ==
    { t \in { Concat(ps) : ps \in UNION { [1..n -> Pieces] : n \in 1..MaxPieces } } :
        Strip(t) # <<>> }

InitPipeline ==
    /\ raw_text \in DocumentTexts
    /\ entry \in {"summary", "download"}
    /\ component_name \in {<<>>, <<"L","M","3","1","7">>}
    /\ text = raw_text
    /\ pc = IF entry = "summary" THEN "clean" ELSE "classify"
    /\ detected = NoType /\ component_type = NoType /\ specs = NoSpecs
    /\ vram_mb = 0
    /\ DirectoryIdle /\ SelectionIdle /\ CascadeIdle /\ FunctionsIdle
    /\ dir_state = "ok" /\ ProbeIdle /\ AskIdle /\ ImportIdle
    /\ LegacyIdle /\ StreamIdle

\* line 763, in _create_comprehensive_summary only
Clean ==
    /\ pc = "clean"
    /\ text' = clean_text(text)
    /\ pc' = "classify"
    /\ UNCHANGED <<more, env, sel, fns, casc, dir_state, smi, probe_out, question, response,
                   tpc, ai_module, component_name, detected, component_type, specs>>

\* lines 629 and 766
Classify ==
    /\ pc = "classify"
    /\ component_type' = detect_component_type(text, component_name)
    /\ pc' = "extract_specs"
    /\ UNCHANGED <<more, env, sel, fns, casc, dir_state, smi, probe_out, question, response,
                   tpc, ai_module, component_name, text, detected, specs>>

\* lines 632 and 777
ExtractSpecs ==
    /\ pc = "extract_specs"
    /\ specs' = extract_component_specifications(text, component_type)
    /\ pc' = "done"
    /\ UNCHANGED <<more, env, sel, fns, casc, dir_state, smi, probe_out, question, response,
                   tpc, ai_module, component_name, text, detected, component_type>>

NextPipeline == Clean \/ Classify \/ ExtractSpecs

SpecPipeline == InitPipeline /\ [][NextPipeline]_vars


(***************************************************************************)
(* SpecLegacy: the threads of the process calling get_llm and get_agent of *)
(* app.py.  A step is one read or write of a module global, one operation  *)
(* on a lock, or one constructor call; the interpreter makes each atomic.  *)
(***************************************************************************)
InitLegacy ==
    /\ pc = "serving"
    /\ call \in [Threads -> {"get_llm", "get_agent"}]
    /\ lpc = [t \in Threads |-> IF call[t] = "get_llm" THEN "llm_check" ELSE "agent_check"]
    /\ LLM_INSTANCE = 0 /\ LLM_LOCK = "free" /\ AGENT_EXECUTOR = 0 /\ AGENT_LOCK = "free"
    /\ made = [llm |-> 0, agent |-> 0]
    /\ local_llm = [t \in Threads |-> 0] /\ ret = [t \in Threads |-> 0]
    /\ vram_mb = 0
    /\ DirectoryIdle /\ SelectionIdle /\ CascadeIdle /\ FunctionsIdle
    /\ AuxIdle /\ PipeIdle /\ StreamIdle

\* thread t moves to position p
Goto(t, p) == lpc' = [lpc EXCEPT ![t] = p]

\* get_llm returns v to thread t: to the caller of get_llm, or into the local llm
\* of get_agent (line 284)
LlmReturns(t, v) ==
    IF call[t] = "get_llm"
    THEN /\ ret' = [ret EXCEPT ![t] = v] /\ Goto(t, "returned")
         /\ UNCHANGED local_llm
    ELSE /\ local_llm' = [local_llm EXCEPT ![t] = v] /\ Goto(t, "agent_acquire")
         /\ UNCHANGED ret

\* lines 95-96
LlmCheck(t) ==
    /\ lpc[t] = "llm_check"
    /\ IF LLM_INSTANCE # 0
       THEN LlmReturns(t, LLM_INSTANCE)
       ELSE Goto(t, "llm_find") /\ UNCHANGED <<local_llm, ret>>
    /\ UNCHANGED <<LLM_INSTANCE, LLM_LOCK, AGENT_EXECUTOR, AGENT_LOCK, made, call>>
    /\ UNCHANGED <<stream, pipe, aux, env, pc, sel, fns, casc>>

\* lines 97-101: LlamaCpp is missing or no model file is found, and the call raises
LlmFind(t) ==
    /\ lpc[t] = "llm_find"
    /\ \E found \in BOOLEAN : Goto(t, IF found THEN "llm_acquire" ELSE "raised")
    /\ UNCHANGED <<LLM_INSTANCE, LLM_LOCK, AGENT_EXECUTOR, AGENT_LOCK, made, call,
                   local_llm, ret>>
    /\ UNCHANGED <<stream, pipe, aux, env, pc, sel, fns, casc>>

\* line 102: with _LLM_LOCK
LlmAcquire(t) ==
    /\ lpc[t] = "llm_acquire"
    /\ LLM_LOCK = "free"
    /\ LLM_LOCK' = t
    /\ Goto(t, "llm_recheck")
    /\ UNCHANGED <<LLM_INSTANCE, AGENT_EXECUTOR, AGENT_LOCK, made, call, local_llm, ret>>
    /\ UNCHANGED <<stream, pipe, aux, env, pc, sel, fns, casc>>

\* the second test left out: the holder of the lock always constructs
LlmRecheckSkipped(t) ==
    /\ lpc[t] = "llm_recheck"
    /\ Goto(t, "llm_construct")
    /\ UNCHANGED <<LLM_INSTANCE, LLM_LOCK, AGENT_EXECUTOR, AGENT_LOCK, made, call,
                   local_llm, ret>>
    /\ UNCHANGED <<stream, pipe, aux, env, pc, sel, fns, casc>>

\* line 103: the test repeated under the lock
LlmRecheck(t) ==
    /\ lpc[t] = "llm_recheck"
    /\ Goto(t, IF LLM_INSTANCE = 0 THEN "llm_construct" ELSE "llm_release")
    /\ UNCHANGED <<LLM_INSTANCE, LLM_LOCK, AGENT_EXECUTOR, AGENT_LOCK, made, call,
                   local_llm, ret>>
    /\ UNCHANGED <<stream, pipe, aux, env, pc, sel, fns, casc>>

\* lines 104-112: the constructor returns and the global is set, or it raises and
\* the with statement releases the lock
LlmConstruct(t) ==
    /\ lpc[t] = "llm_construct"
    /\ \E ok \in BOOLEAN :
          IF ok
          THEN /\ made' = [made EXCEPT !.llm = @ + 1]
               /\ LLM_INSTANCE' = made.llm + 1
               /\ LLM_LOCK' = LLM_LOCK
               /\ Goto(t, "llm_release")
          ELSE /\ LLM_LOCK' = "free"
               /\ Goto(t, "raised")
               /\ UNCHANGED <<made, LLM_INSTANCE>>
    /\ UNCHANGED <<AGENT_EXECUTOR, AGENT_LOCK, call, local_llm, ret>>
    /\ UNCHANGED <<stream, pipe, aux, env, pc, sel, fns, casc>>

\* the end of the with block
LlmRelease(t) ==
    /\ lpc[t] = "llm_release"
    /\ LLM_LOCK' = "free"
    /\ Goto(t, "llm_return")
    /\ UNCHANGED <<LLM_INSTANCE, AGENT_EXECUTOR, AGENT_LOCK, made, call, local_llm, ret>>
    /\ UNCHANGED <<stream, pipe, aux, env, pc, sel, fns, casc>>

\* line 113
LlmReturn(t) ==
    /\ lpc[t] = "llm_return"
    /\ LlmReturns(t, LLM_INSTANCE)
    /\ UNCHANGED <<LLM_INSTANCE, LLM_LOCK, AGENT_EXECUTOR, AGENT_LOCK, made, call>>
    /\ UNCHANGED <<stream, pipe, aux, env, pc, sel, fns, casc>>

\* lines 280-284: the executor if there is one, else on to get_llm()
AgentCheck(t) ==
    /\ lpc[t] = "agent_check"
    /\ IF AGENT_EXECUTOR # 0
       THEN ret' = [ret EXCEPT ![t] = AGENT_EXECUTOR] /\ Goto(t, "returned")
       ELSE ret' = ret /\ Goto(t, "llm_check")
    /\ UNCHANGED <<LLM_INSTANCE, LLM_LOCK, AGENT_EXECUTOR, AGENT_LOCK, made, call, local_llm>>
    /\ UNCHANGED <<stream, pipe, aux, env, pc, sel, fns, casc>>

\* line 294: with _AGENT_LOCK
AgentAcquire(t) ==
    /\ lpc[t] = "agent_acquire"
    /\ AGENT_LOCK = "free"
    /\ AGENT_LOCK' = t
    /\ Goto(t, "agent_recheck")
    /\ UNCHANGED <<LLM_INSTANCE, LLM_LOCK, AGENT_EXECUTOR, made, call, local_llm, ret>>
    /\ UNCHANGED <<stream, pipe, aux, env, pc, sel, fns, casc>>

\* line 295
AgentRecheck(t) ==
    /\ lpc[t] = "agent_recheck"
    /\ Goto(t, IF AGENT_EXECUTOR = 0 THEN "agent_construct" ELSE "agent_release")
    /\ UNCHANGED <<LLM_INSTANCE, LLM_LOCK, AGENT_EXECUTOR, AGENT_LOCK, made, call,
                   local_llm, ret>>
    /\ UNCHANGED <<stream, pipe, aux, env, pc, sel, fns, casc>>

\* lines 296-303: initialize_agent returns and the global is set, or it raises
AgentConstruct(t) ==
    /\ lpc[t] = "agent_construct"
    /\ \E ok \in BOOLEAN :
          IF ok
          THEN /\ made' = [made EXCEPT !.agent = @ + 1]
               /\ AGENT_EXECUTOR' = made.agent + 1
               /\ AGENT_LOCK' = AGENT_LOCK
               /\ Goto(t, "agent_release")
          ELSE /\ AGENT_LOCK' = "free"
               /\ Goto(t, "raised")
               /\ UNCHANGED <<made, AGENT_EXECUTOR>>
    /\ UNCHANGED <<LLM_INSTANCE, LLM_LOCK, call, local_llm, ret>>
    /\ UNCHANGED <<stream, pipe, aux, env, pc, sel, fns, casc>>

\* the end of the with block
AgentRelease(t) ==
    /\ lpc[t] = "agent_release"
    /\ AGENT_LOCK' = "free"
    /\ Goto(t, "agent_return")
    /\ UNCHANGED <<LLM_INSTANCE, LLM_LOCK, AGENT_EXECUTOR, made, call, local_llm, ret>>
    /\ UNCHANGED <<stream, pipe, aux, env, pc, sel, fns, casc>>

\* line 304
AgentReturn(t) ==
    /\ lpc[t] = "agent_return"
    /\ ret' = [ret EXCEPT ![t] = AGENT_EXECUTOR]
    /\ Goto(t, "returned")
    /\ UNCHANGED <<LLM_INSTANCE, LLM_LOCK, AGENT_EXECUTOR, AGENT_LOCK, made, call, local_llm>>
    /\ UNCHANGED <<stream, pipe, aux, env, pc, sel, fns, casc>>

NextLegacy ==
    \E t \in Threads :
        \/ LlmCheck(t)
        \/ LlmFind(t)
        \/ LlmAcquire(t)
        \/ LlmRecheck(t)
        \/ LlmConstruct(t)
        \/ LlmRelease(t)
        \/ LlmReturn(t)
        \/ AgentCheck(t)
        \/ AgentAcquire(t)
        \/ AgentRecheck(t)
        \/ AgentConstruct(t)
        \/ AgentRelease(t)
        \/ AgentReturn(t)

SpecLegacy == InitLegacy /\ [][NextLegacy]_vars

(***************************************************************************)
(* SpecStream: the generator of ai_ask_stream and its worker thread.  The  *)
(* worker runs process_question, which reports progress through the queue, *)
(* and then sets one of the two events; the generator drains the queue     *)
(* while it waits, flushes what is left, and yields the terminal event.    *)
(* Progress messages are numbered in the order of their enqueueing.        *)
(***************************************************************************)
MaxProgress == 3

ProgressEvent(m) == [type |-> "progress", data |-> m]
TerminalEvent(type) == [type |-> type, data |-> 0]

\* lines 334-337 and 367-369: the locals of generate, the worker started
InitStream ==
    /\ pc = "streaming"
    /\ progress_queue = <<>> /\ processing_done = FALSE /\ error_occurred = FALSE
    /\ result_data = 0 /\ enqueued = 0 /\ events = <<>>
    /\ wpc = "process" /\ gpc = "loop"
    /\ vram_mb = 0
    /\ DirectoryIdle /\ SelectionIdle /\ CascadeIdle /\ FunctionsIdle
    /\ AuxIdle /\ PipeIdle /\ LegacyIdle

\* lines 339-344: progress_callback, called by process_question
WorkerProgress ==
    /\ wpc = "process"
    /\ enqueued < MaxProgress
    /\ enqueued' = enqueued + 1
    /\ progress_queue' = Append(progress_queue, enqueued + 1)
    /\ UNCHANGED <<processing_done, error_occurred, result_data, wpc, gpc, events>>
    /\ UNCHANGED <<pipe, legacy, aux, env, pc, sel, fns, casc>>

\* line 350: process_question returns its dict, or raises
WorkerReturns ==
    /\ wpc = "process"
    /\ \E ok \in BOOLEAN :
          IF ok THEN result_data' = 1 /\ wpc' = "persist"
          ELSE result_data' = result_data /\ wpc' = "except"
    /\ UNCHANGED <<progress_queue, processing_done, error_occurred, enqueued, gpc, events>>
    /\ UNCHANGED <<pipe, legacy, aux, env, pc, sel, fns, casc>>

\* lines 352-364: the reply is stored (a failure is logged), then processing_done.set()
WorkerDone ==
    /\ wpc = "persist"
    /\ processing_done' = TRUE
    /\ wpc' = "exit"
    /\ UNCHANGED <<progress_queue, error_occurred, result_data, enqueued, gpc, events>>
    /\ UNCHANGED <<pipe, legacy, aux, env, pc, sel, fns, casc>>

\* lines 365-367: error_occurred.set()
WorkerFails ==
    /\ wpc = "except"
    /\ error_occurred' = TRUE
    /\ wpc' = "exit"
    /\ UNCHANGED <<progress_queue, processing_done, result_data, enqueued, gpc, events>>
    /\ UNCHANGED <<pipe, legacy, aux, env, pc, sel, fns, casc>>

\* line 376: while not processing_done.is_set() and not error_occurred.is_set()
LoopTest ==
    /\ gpc = "loop"
    /\ gpc' = IF ~processing_done /\ ~error_occurred THEN "get" ELSE "join"
    /\ UNCHANGED <<progress_queue, processing_done, error_occurred, result_data, enqueued,
                   wpc, events>>
    /\ UNCHANGED <<pipe, legacy, aux, env, pc, sel, fns, casc>>

\* lines 377-381: get(timeout=0.1) gives a message, which is yielded, or the queue
\* stays empty and queue.Empty sends the loop round again
LoopGet ==
    /\ gpc = "get"
    /\ IF progress_queue # <<>>
       THEN /\ events' = Append(events, ProgressEvent(Head(progress_queue)))
            /\ progress_queue' = Tail(progress_queue)
       ELSE UNCHANGED <<events, progress_queue>>
    /\ gpc' = "loop"
    /\ UNCHANGED <<processing_done, error_occurred, result_data, enqueued, wpc>>
    /\ UNCHANGED <<pipe, legacy, aux, env, pc, sel, fns, casc>>

\* line 386: thread.join(timeout=60) returns when the worker has ended or after
\* the timeout
Join ==
    /\ gpc = "join"
    /\ gpc' = "flush"
    /\ UNCHANGED <<progress_queue, processing_done, error_occurred, result_data, enqueued,
                   wpc, events>>
    /\ UNCHANGED <<pipe, legacy, aux, env, pc, sel, fns, casc>>

\* the generator goes on to the terminal event with the queue as it is
FlushSkipped ==
    /\ gpc = "flush"
    /\ gpc' = "final"
    /\ UNCHANGED <<progress_queue, processing_done, error_occurred, result_data, enqueued,
                   wpc, events>>
    /\ UNCHANGED <<pipe, legacy, aux, env, pc, sel, fns, casc>>

\* lines 389-396: while not progress_queue.empty(): get_nowait() and yield
Flush ==
    /\ gpc = "flush"
    /\ IF progress_queue # <<>>
       THEN /\ events' = Append(events, ProgressEvent(Head(progress_queue)))
            /\ progress_queue' = Tail(progress_queue)
            /\ gpc' = "flush"
       ELSE /\ UNCHANGED <<events, progress_queue>>
            /\ gpc' = "final"
    /\ UNCHANGED <<processing_done, error_occurred, result_data, enqueued, wpc>>
    /\ UNCHANGED <<pipe, legacy, aux, env, pc, sel, fns, casc>>

\* lines 398-424: the terminal event; json.dumps of the result may raise, and the
\* handler of line 416 then yields the error event
Final ==
    /\ gpc = "final"
    /\ \E dumps_ok \in BOOLEAN :
          events' = Append(events,
                       IF error_occurred THEN TerminalEvent("error")
                       ELSE IF result_data # 0 /\ dumps_ok THEN TerminalEvent("result")
                       ELSE TerminalEvent("error"))
    /\ gpc' = "end"
    /\ UNCHANGED <<progress_queue, processing_done, error_occurred, result_data, enqueued,
                   wpc>>
    /\ UNCHANGED <<pipe, legacy, aux, env, pc, sel, fns, casc>>

Worker == WorkerProgress \/ WorkerReturns \/ WorkerDone \/ WorkerFails

Generator == LoopTest \/ LoopGet \/ Join \/ Flush \/ Final

NextStream ==
    \/ WorkerProgress
    \/ WorkerReturns
    \/ WorkerDone
    \/ WorkerFails
    \/ LoopTest
    \/ LoopGet
    \/ Join
    \/ Flush
    \/ Final

SpecStream == InitStream /\ [][NextStream]_vars

\* the server keeps taking events from the generator, and the worker thread runs
SpecStreamFair == SpecStream /\ WF_vars(Generator) /\ WF_vars(Worker)

(***************************************************************************)
(* Properties of the selection (SpecSelect).                               *)
(***************************************************************************)
Range(f) == {f[i] : i \in DOMAIN f}

NoPreferenceMatch ==
    \/ preferred_model = <<>>
    \/ \A i \in 1..Len(models) :
          ~StartsWith(Lower(Basename(models[i].gguf_path)), Lower(preferred_model))

NoneFits == \A i \in 1..Len(models) : ParamsOf(models[i]) > max_params_b(vram_mb)

MinParams(i) == \A j \in 1..Len(models) : ParamsOf(models[i]) <= ParamsOf(models[j])

\* the filtered set of the design: the models that fit, else those of least size
FilteredSet ==
    IF NoneFits THEN {i \in 1..Len(models) : MinParams(i)}
    ELSE {i \in 1..Len(models) : ParamsOf(models[i]) <= max_params_b(vram_mb)}

Distance(a, b) == IF a >= b THEN a - b ELSE b - a

ScoreTuple(m) ==
    <<ParamsOf(m), 0 - Distance(get_quant_rank(Tag(m.quant)), target_rank(vram_mb)),
      m.file_size>>

TupleGE(a, b) ==
    \/ a[1] > b[1]
    \/ a[1] = b[1] /\ a[2] > b[2]
    \/ a[1] = b[1] /\ a[2] = b[2] /\ a[3][1] > b[3][1]
    \/ a[1] = b[1] /\ a[2] = b[2] /\ a[3][1] = b[3][1] /\ a[3][2] >= b[3][2]

\* the catalog {4B/Q4_K_M/2.5e9, 7B/Q5_K_M/4.5e9, 13B/Q2_K/7e9} at 10000 MB
ScenarioCatalog ==
    /\ vram_mb = 10000
    /\ {<<ParamsOf(m), m.quant, m.file_size>> : m \in Range(models)} =
         { <<4, <<"Q","4","_","K","_","M">>, <<2, 500000000>> >>,
           <<7, <<"Q","5","_","K","_","M">>, <<4, 500000000>> >>,
           <<13, <<"Q","2","_","K">>, <<7, 0>> >> }

\* C1: without a matching preference the selector returns a model of the filtered
\* set (those with params <= max_params_b, else those of least params) whose tuple
\* (params, -|rank - target|, size) is >= the tuple of every model of that set; on
\* the catalog {4B/Q4_K_M, 7B/Q5_K_M, 13B/Q2_K} at 10000 MB it returns the 7B model.
C1_SelectsLexMaxOfFiltered ==
    (pc = "selected" /\ models # <<>> /\ NoPreferenceMatch) =>
        /\ selected.kind = "ok"
        /\ \E i \in FilteredSet :
              /\ models[i] = selected.model
              /\ \A j \in FilteredSet :
                    TupleGE(ScoreTuple(models[i]), ScoreTuple(models[j]))
        /\ ScenarioCatalog => ParamsOf(selected.model) = 7

C1_Witness ==
    /\ pc = "selected" /\ NoPreferenceMatch /\ ScenarioCatalog
    /\ selected.kind = "ok" /\ ParamsOf(selected.model) = 7

\* C3: raising the VRAM with the catalog and the preference fixed never lowers the
\* parameter size of the selected model, the least-params fallback included.
C3_MonotonicInVram ==
    (pc = "selected" /\ models # <<>>) =>
        \A v2 \in VramValues :
            v2 >= vram_mb =>
                ParamsOf(select_best_model(models, preferred_model, v2).model)
                    >= ParamsOf(selected.model)

C3_Witness ==
    /\ pc = "selected" /\ models # <<>> /\ NoPreferenceMatch /\ NoneFits
    /\ \E v2 \in VramValues :
          /\ v2 > vram_mb
          /\ ParamsOf(select_best_model(models, preferred_model, v2).model)
                > ParamsOf(selected.model)

C5_NeverEmptyAndLeastFallback ==
    (pc = "selected" /\ models # <<>>) =>
        /\ selected.kind = "ok"
        /\ selected.model \in Range(models)
        /\ NoPreferenceMatch => within_size # <<>>
        /\ (NoPreferenceMatch /\ NoneFits) =>
              Range(within_size) = {models[i] : i \in {k \in 1..Len(models) : MinParams(k)}}

C5_Witness ==
    /\ pc = "selected" /\ NoPreferenceMatch /\ NoneFits
    /\ Len(models) >= 2 /\ within_size # <<>> /\ Len(within_size) < Len(models)
    /\ selected.model \in Range(within_size)

(***************************************************************************)
(* Properties of the thresholds (SpecThresholds).                          *)
(***************************************************************************)
Cuts(v, cs) == Cardinality({c \in cs : v >= c})

\* C6: target_quant_rank is 4/3/2/1/0 at >=20000/12000/8000/6000/else, max_param_b
\* is 13/12/7/4/3 at >=16000/12000/6000/4096/else, both are non-decreasing in the
\* VRAM and the boundaries are inclusive (4096 gives 4, 4095 gives 3).
C6_Thresholds ==
    pc = "done" =>
        /\ thresholds.target_rank = Cuts(vram_mb, {6000, 8000, 12000, 20000})
        /\ thresholds.max_params_b =
              CASE Cuts(vram_mb, {4096, 6000, 12000, 16000}) = 4 -> 13
                [] Cuts(vram_mb, {4096, 6000, 12000, 16000}) = 3 -> 12
                [] Cuts(vram_mb, {4096, 6000, 12000, 16000}) = 2 -> 7
                [] Cuts(vram_mb, {4096, 6000, 12000, 16000}) = 1 -> 4
                [] OTHER -> 3
        /\ \A v2 \in ThresholdVrams :
              v2 >= vram_mb =>
                  /\ target_rank(v2) >= thresholds.target_rank
                  /\ max_params_b(v2) >= thresholds.max_params_b
        /\ vram_mb = 4096 => thresholds.max_params_b = 4
        /\ vram_mb = 4095 => thresholds.max_params_b = 3

C6_Witness ==
    /\ pc = "done" /\ vram_mb = 4096
    /\ thresholds = [target_rank |-> 0, max_params_b |-> 4]

(***************************************************************************)
(* Properties of get_quant_rank (SpecRank).                                *)
(***************************************************************************)
\* the tag as the function reads it: missing is empty, letters are upper-cased
ReadTag(q) == IF q.none THEN <<>> ELSE Upper(q.v)

TableRank(u) ==
    CASE u = <<"F","3","2">> -> 7
      [] u = <<"F","1","6">> -> 6
      [] u = <<"Q","8","_","0">> -> 5
      [] u = <<"Q","6","_","K">> -> 4
      [] u \in {<<"Q","5","_","K","_","M">>, <<"Q","5","_","K">>, <<"Q","5","_","0">>} -> 3
      [] u \in {<<"Q","4","_","K","_","M">>, <<"Q","4","_","K","_","S">>, <<"Q","4","_","0">>} -> 2
      [] u = <<"Q","3","_","K">> -> 1
      [] u = <<"Q","2","_","K">> -> 0
      [] OTHER -> -1

PrefixRank(u) ==
    IF Len(u) >= 2 /\ u[1] = "Q"
    THEN CASE u[2] = "8" -> 5 [] u[2] = "6" -> 4 [] u[2] = "5" -> 3
           [] u[2] = "4" -> 2 [] u[2] = "3" -> 1 [] u[2] = "2" -> 0
           [] OTHER -> -1
    ELSE -1

\* C7: the rank is total into 0..7: a tag of the table gets its table value, any
\* other tag starting with Q8/Q6/Q5/Q4/Q3/Q2 gets 5/4/3/2/1/0, and every remaining
\* tag, the empty and the missing one included, gets 2 (tags read upper-cased).
C7_RankTotal ==
    pc = "done" =>
        /\ q_out \in 0..7
        /\ q_out = IF TableRank(ReadTag(q_in)) >= 0 THEN TableRank(ReadTag(q_in))
                   ELSE IF PrefixRank(ReadTag(q_in)) >= 0 THEN PrefixRank(ReadTag(q_in))
                   ELSE 2

C7_Witness ==
    /\ pc = "done" /\ q_in = Tag(<<"Q","6","_","K","_","M">>) /\ q_out = 4

(***************************************************************************)
(* Properties of detect_params_b (SpecParams).                             *)
(***************************************************************************)
\* positions of the file name where 1-2 digits are followed by b or B
PatternAt(name, i, n) ==
    /\ i + n <= Len(name)
    /\ \A k \in i..(i + n - 1) : name[k] \in DigitSet
    /\ name[i + n] \in {"b", "B"}

PatternStarts(name) == {i \in 1..Len(name) : PatternAt(name, i, 1) \/ PatternAt(name, i, 2)}

NumberAt(name, i) ==
    IF PatternAt(name, i, 2)
    THEN 10 * DigitVal(name[i]) + DigitVal(name[i + 1])
    ELSE DigitVal(name[i])

Over(size, g, r) == size[1] > g \/ (size[1] = g /\ size[2] > r)

\* C8: a 1-2 digit number followed by b (any case) in the file name is the estimate
\* whatever the size; otherwise the estimate is 12, 7, 4 or 3 for sizes over
\* 6,000,000,000, over 3,000,000,000, over 1,800,000,000 or not, strictly.
C8_PatternBeforeSize ==
    pc = "done" =>
        IF PatternStarts(p_in.name) # {}
        THEN \E i \in PatternStarts(p_in.name) :
                /\ \A k \in PatternStarts(p_in.name) : i <= k
                /\ p_out = NumberAt(p_in.name, i)
        ELSE p_out = IF Over(p_in.size, 6, 0) THEN 12
                     ELSE IF Over(p_in.size, 3, 0) THEN 7
                     ELSE IF Over(p_in.size, 1, 800000000) THEN 4
                     ELSE 3

C8_Witness ==
    /\ pc = "done" /\ p_out = 7
    /\ p_in = File(<<"m",".","g","g","u","f">>, <<6, 0>>)

(***************************************************************************)
(* Properties of the initialization (Spec).                                *)
(***************************************************************************)
NameStartsWith(path, prefix) == StartsWith(Lower(Basename(path)), Lower(prefix))

PreferenceApplies ==
    /\ preferred_model # <<>>
    /\ \E i \in 1..Len(models) : NameStartsWith(models[i].gguf_path, preferred_model)

\* C2: when a non-empty preferred name is given and some candidate's file name
\* starts with it (case-insensitively), the model chosen for initialization is a
\* candidate whose file name starts with it, whatever the helper script preselects.
C2_PreferenceWins ==
    (pc \notin {"discover", "select"} /\ PreferenceApplies) =>
        /\ selected.kind = "ok"
        /\ NameStartsWith(selected.model.gguf_path, preferred_model)
        /\ attempts # <<>> => NameStartsWith(attempts[1].path, preferred_model)

ConfiguredCtx == IF cfg.present THEN cfg.n_ctx ELSE 8192
ConfiguredGpu == IF cfg.present THEN cfg.gpu_layers ELSE -1
ReducedCtx ==
    IF ConfiguredCtx > 4096 THEN 4096
    ELSE IF ConfiguredCtx < 2048 THEN 2048
    ELSE ConfiguredCtx

\* C9: the load attempts come in the order TryPrimary (selected path, configured
\* context, configured layers), TryCpuOnly (same path and context, 0 layers),
\* TryReducedContext (same path, context max(min(original, 4096), 2048), 0 layers),
\* TryAlternative (another path, the reduced context, 0 layers), and an attempt is
\* made only if every earlier attempt raised.
C9_CascadeOrder ==
    \A k \in 1..Len(attempts) :
        /\ \A j \in 1..(k - 1) : ~attempts[j].ok
        /\ k = 1 => attempts[k] = [path |-> selected.model.gguf_path, ctx |-> ConfiguredCtx,
                                   gpu |-> ConfiguredGpu, ok |-> attempts[k].ok]
        /\ k = 2 => attempts[k] = [path |-> selected.model.gguf_path, ctx |-> ConfiguredCtx,
                                   gpu |-> 0, ok |-> attempts[k].ok]
        /\ k = 3 => attempts[k] = [path |-> selected.model.gguf_path, ctx |-> ReducedCtx,
                                   gpu |-> 0, ok |-> attempts[k].ok]
        /\ k >= 4 => /\ attempts[k].path # selected.model.gguf_path
                     /\ \E i \in 1..Len(models) : models[i].gguf_path = attempts[k].path
                     /\ attempts[k].ctx = ReducedCtx
                     /\ attempts[k].gpu = 0

C9_Witness ==
    /\ pc = "done" /\ Len(attempts) = 4 /\ attempts[4].ok /\ llm = 4
    /\ cfg.present /\ cfg.n_ctx < 2048 /\ attempts[4].ctx = 2048

Ready == pc = "done" /\ llm \in 1..Len(attempts) /\ attempts[llm].ok
Failed == pc = "done" /\ llm = 0 /\ \A k \in 1..Len(attempts) : ~attempts[k].ok

C10_Bounds ==
    /\ models = <<>> => attempts = <<>>
    /\ models # <<>> => Len(attempts) <= 3 + (Len(models) - 1)
    /\ Cardinality({k \in 1..Len(attempts) : attempts[k].path = selected.model.gguf_path}) <= 3
    /\ \A i, j \in 4..Len(attempts) : i # j => attempts[i].path # attempts[j].path
    /\ pc = "done" => Ready \/ Failed

\* how far the initialization is from its end
PcRank ==
    CASE pc = "discover" -> 7 [] pc = "select" -> 6 [] pc = "primary" -> 5
      [] pc = "cpu" -> 4 [] pc = "reduced" -> 3 [] pc = "alt" -> 2
      [] pc = "finish" -> 1 [] pc = "done" -> 0

\* a step leaves a state that is not final and brings the end nearer
Progress ==
    /\ pc # "done"
    /\ \/ PcRank' < PcRank
       \/ PcRank' = PcRank /\ Len(alt_models') < Len(alt_models)

\* C10: the cascade is one downward pass that ends: with N candidates at most
\* 3 + (N - 1) load attempts are made (primary, CPU-only and reduced context once
\* each, every alternative at most once), whatever fails; every step brings the end
\* nearer, at the end the engine is Ready (a handle exists) or Failed (none), and no
\* step follows.
C10_SinglePassTerminates == []C10_Bounds /\ [][Progress]_vars

C10_Witness ==
    /\ Failed /\ Len(models) = 3 /\ Len(attempts) = 5

(***************************************************************************)
(* Properties of the load attempts of one cascade (Spec).                  *)
(***************************************************************************)
Triple(a) == <<a.path, a.ctx, a.gpu>>

\* C11: each attempt is strictly more conservative than the ones before it: for
\* every configured layer count and context length, no two load attempts of one
\* cascade use the same (model path, context length, layer count) triple.
C11_NoRepeatedTriple ==
    \A i, j \in 1..Len(attempts) : i # j => Triple(attempts[i]) # Triple(attempts[j])

\* the file size of the catalog entry with this path
SizeOfPath(path) ==
    models[CHOOSE i \in 1..Len(models) : models[i].gguf_path = path].file_size

\* C12: the alternatives are attempted in ascending order of file size, the primary
\* is never attempted again, the loop stops at the first alternative that loads, and
\* no smaller candidate other than the primary is passed over.
C12_AlternativesAscending ==
    \A k \in 4..Len(attempts) :
        /\ attempts[k].path # selected.model.gguf_path
        /\ k > 4 => ~SizeGT(SizeOfPath(attempts[k - 1].path), SizeOfPath(attempts[k].path))
        /\ attempts[k].ok => k = Len(attempts)
        /\ \A i \in 1..Len(models) :
              ( /\ models[i].gguf_path # selected.model.gguf_path
                /\ SizeGT(SizeOfPath(attempts[k].path), models[i].file_size) )
              => \E j \in 4..(k - 1) : attempts[j].path = models[i].gguf_path

C12_Witness ==
    /\ pc = "done" /\ Len(attempts) = 5 /\ attempts[5].ok
    /\ SizeGT(SizeOfPath(attempts[5].path), SizeOfPath(attempts[4].path))
    /\ \E i, j \in 1..Len(models) :
          /\ i < j
          /\ models[i].gguf_path = attempts[5].path
          /\ models[j].gguf_path = attempts[4].path

FailureLines ==
    { "error: primary init failed", "error: cpu-only init failed",
      "error: reduced-context init failed", "error: alternative model init failed" }

LoggedFailures == Cardinality({i \in 1..Len(log) : log[i] \in FailureLines})

\* C13: when attempt k is the first that succeeds, the handle is the one attempt k
\* returned, for the model attempt k loaded, exactly k - 1 failures were logged, no
\* attempt follows, and the final state is Ready; primary and CPU-only failing and
\* the reduced context succeeding gives Ready with the reduced context and 2 failures.
C13_FirstSuccessIsFinal ==
    \A k \in 1..Len(attempts) :
        attempts[k].ok =>
            /\ k = Len(attempts)
            /\ llm = k
            /\ model_name = Basename(attempts[k].path)
            /\ LoggedFailures = k - 1
            /\ pc \in {"finish", "done"}
            /\ pc = "done" => Ready
            /\ k = 3 => attempts[k].ctx = ReducedCtx /\ LoggedFailures = 2

C13_Witness ==
    /\ pc = "done" /\ Len(attempts) = 3 /\ attempts[3].ok /\ llm = 3
    /\ ~cfg.present /\ attempts[3].ctx = 4096 /\ attempts[1].ctx = 8192
    /\ LoggedFailures = 2

(***************************************************************************)
(* Properties of process_question (SpecAsk).                               *)
(***************************************************************************)
\* C14: when no model handle exists (empty catalog or every attempt failed), every
\* question, whatever its wording, is answered with a failure whose message is
\* 'AI engine not available', and none is answered as a success.
C14_NoHandleNotAvailable ==
    (pc = "answered" /\ llm = 0) =>
        /\ ~response.success
        /\ response.message = "AI engine not available"

(***************************************************************************)
(* Properties of the construction of the service (SpecImport).             *)
(***************************************************************************)
Constructing == {t \in Threads : tpc[t] = "constructing"}

CascadeUnderWay == pc \in {"discover", "select", "primary", "cpu", "reduced", "alt", "finish"}

ProbeFailed ==
    \/ smi.state = "missing"
    \/ smi.returncode # 0
    \/ StrippedLines(smi.stdout) = <<>>
    \/ ~IsInt(Head(StrippedLines(smi.stdout)))

\* C16: the probe lets no failure escape and always returns an integer >= 0: 0 if
\* the tool is missing, exits non-zero, prints nothing or prints a first line that
\* cannot be parsed; otherwise the value of the first non-empty line only.
C16_ProbeNonNegative ==
    pc = "done" =>
        /\ probe_out >= 0
        /\ ProbeFailed => probe_out = 0
        /\ ~ProbeFailed => probe_out = IntValue(Head(StrippedLines(smi.stdout)))

(***************************************************************************)
(* Properties of the catalog scan (SpecDiscover).                          *)
(***************************************************************************)
\* the part of the lower-cased file name before its first '.' or '-'
FileToken(name) ==
    IF \E i \in 1..Len(name) : name[i] \in {".", "-"}
    THEN SubSeq(Lower(name), 1,
                (CHOOSE i \in 1..Len(name) :
                    /\ name[i] \in {".", "-"}
                    /\ \A j \in 1..(i - 1) : name[j] \notin {".", "-"}) - 1)
    ELSE Lower(name)

\* the auxiliary files of the listing that have the token, in enumeration order
AuxSharing(token) ==
    {k \in 1..Len(files) : IsMmproj(files[k]) /\ FileToken(files[k].name) = token}

\* C17: the scan never raises: a missing directory, an empty directory or an error
\* during the listing give an empty list; each candidate is paired with at most one
\* auxiliary file, the first in enumeration order whose name shares the candidate's
\* base token, and with none when no auxiliary file shares it.
C17_ScanPairsByBaseToken ==
    pc = "done" =>
        /\ (dir_state # "ok" \/ files = <<>>) => models = <<>>
        /\ \A i \in 1..Len(models) :
              models[i].mmproj_path =
                  IF AuxSharing(FileToken(Basename(models[i].gguf_path))) = {}
                  THEN NoPath
                  ELSE JoinPath(model_dir,
                         files[First(AuxSharing(FileToken(Basename(models[i].gguf_path))))].name)

(***************************************************************************)
(* Properties of the classifier (SpecDetect).                              *)
(***************************************************************************)
FamilyOrder ==
    << "Resistor", "Capacitor", "Inductor", "Diode", "LED", "Transistor", "MOSFET",
       "Voltage Regulator", "Op-Amp", "Microcontroller", "Crystal", "Relay",
       "Transformer", "Sensor" >>

\* the scores of the text of the state, family by family
ScoresNow == TypeScores(SplitWords(SearchText(component_name, text), <<>>))

\* C18: the classifier returns the argmax of the family scores, a score being the
\* number of the family's patterns found at least once (0 to 4): unknown if every
\* score is 0, else a family of the largest score, the first of them in the order
\* Resistor, Capacitor, ..., Sensor.
C18_ArgmaxFirstInOrder ==
    pc = "done" =>
        \E sc \in {ScoresNow} :
            /\ \A i \in 1..14 : sc[i] \in 0..4 /\ type_patterns[i].family = FamilyOrder[i]
            /\ (\A i \in 1..14 : sc[i] = 0) => detected = NoType
            /\ (\E i \in 1..14 : sc[i] > 0) =>
                  \E i \in 1..14 :
                      /\ detected = FamilyOrder[i]
                      /\ \A j \in 1..14 : sc[j] <= sc[i]
                      /\ \A j \in 1..(i - 1) : sc[j] < sc[i]

\* a tie between two families at a score of 2, decided by the order
C18_Witness ==
    /\ pc = "done"
    /\ detected = "Microcontroller"
    /\ \E sc \in {ScoresNow} :
          /\ sc[10] = 2 /\ sc[11] = 2
          /\ \A j \in 1..14 : sc[j] <= 2

(***************************************************************************)
(* Properties of the extraction (SpecExtract).                             *)
(***************************************************************************)
RulesNow == RulesOf(component_type)

\* the value tokens that rule r captures in the text of the state
CapturedBy(r) ==
    {FirstMatches(RulesNow[r], text)[i].value :
        i \in 1..Len(FirstMatches(RulesNow[r], text))}

\* C19: every value reported for a field is the value token captured by the
\* field's rule, whole and unchanged, unit suffix included, never a part or a
\* single character of it.
C19_ValuesWhole ==
    (pc = "done" /\ specs.kind = "ok") =>
        \A i \in 1..Len(specs.fields) :
            \E r \in 1..Len(RulesNow) :
                /\ RulesNow[r].field = specs.fields[i].field
                /\ specs.fields[i].value \in CapturedBy(r)

\* C20: the rules are independent and best-effort: a rule that finds nothing or
\* cannot produce its value leaves out its own field only; the fields of the other
\* rules of the pass are returned, and one rule never empties the whole result.
C20_RulesIndependent ==
    pc = "done" =>
        \A r \in 1..Len(RulesNow) :
            ( /\ CapturedBy(r) # {}
              /\ ~RuleRaises(RulesNow[r], FirstMatches(RulesNow[r], text)) )
            => /\ specs.kind = "ok"
               /\ \E i \in 1..Len(specs.fields) : specs.fields[i].field = RulesNow[r].field

\* C21: the field labels of one extraction result are unique: no label is
\* reported twice in the result of one pass.
C21_KeysUnique ==
    (pc = "done" /\ specs.kind = "ok") =>
        \A i, j \in 1..Len(specs.fields) :
            specs.fields[i].field = specs.fields[j].field => i = j

(***************************************************************************)
(* Properties of the pipeline (SpecPipeline).                              *)
(***************************************************************************)
\* C22: on both paths the classifier and the extraction are given the text the
\* normalizer made of the raw text, and the extraction is given the label the
\* classifier computed from it.
C22_NormalizedBeforeClassified ==
    /\ pc \in {"extract_specs", "done"} =>
          /\ text = clean_text(raw_text)
          /\ component_type = detect_component_type(text, component_name)
    /\ pc = "done" => specs = extract_component_specifications(text, component_type)

\* C23: the text the normalizer returns has no two whitespace characters in a
\* row and no whitespace at its ends.
C23_NoRepeatedWhitespace ==
    (entry = "summary" /\ pc # "clean") =>
        /\ \A i \in 1..(Len(text) - 1) :
              ~(text[i] \in Whitespace /\ text[i + 1] \in Whitespace)
        /\ text # <<>> => (text[1] \notin Whitespace /\ text[Len(text)] \notin Whitespace)

(***************************************************************************)
(* The helper script against the backend (SpecSelect).                     *)
(***************************************************************************)
\* C24: with no preferred name the helper script and the backend select the same
\* model file, and they derive the same quantization tag for every file.
C24_HelperAgreesWithBackend ==
    (pc = "selected" /\ preferred_model = <<>> /\ models # <<>>) =>
        /\ Basename(selected.model.gguf_path) = HelperPrints(model_dir, files, vram_mb)
        /\ \A i \in 1..Len(models) :
              models[i].quant = discover_models(model_dir, files)[i].quant

\* the catalog in another order
Reordered(ms, perm) == [i \in 1..Len(ms) |-> ms[perm[i]]]

\* C25: the selection does not depend on the order of the catalog: on every
\* permutation of the same candidates the selector returns the same candidate.
C25_OrderIndependent ==
    pc = "selected" =>
        \A perm \in Permutations(1..Len(models)) :
            select_best_model(Reordered(models, perm), preferred_model, vram_mb) = selected

(***************************************************************************)
(* The context length of the cascade (Spec).                               *)
(***************************************************************************)
\* C26 as stated: the context length of every attempt after the primary one is at
\* most the configured context length.
C26_ContextNeverRaised ==
    \A i \in 2..Len(attempts) : attempts[i].ctx <= n_ctx_of(cfg)

\* the configured context length clamped to 2048 .. 4096
Clamped(n) == IF n < 2048 THEN 2048 ELSE IF n > 4096 THEN 4096 ELSE n

\* C26: the CPU-only retry keeps the configured context length, and every later
\* attempt uses the configured length brought into 2048 .. 4096: it is at most the
\* configured length when that is 2048 or more, and is 2048 when it is less.
C26_ContextClamped ==
    \A i \in 2..Len(attempts) :
        /\ i = 2 => attempts[i].ctx = n_ctx_of(cfg)
        /\ i >= 3 => attempts[i].ctx = Clamped(n_ctx_of(cfg))
        /\ n_ctx_of(cfg) >= 2048 => attempts[i].ctx <= n_ctx_of(cfg)

C26_Witness ==
    /\ n_ctx_of(cfg) < 2048
    /\ Len(attempts) >= 4
    /\ attempts[3].ctx = 2048 /\ attempts[4].ctx = 2048

(***************************************************************************)
(* The model a response names (SpecAsk).                                   *)
(***************************************************************************)
\* C27: a handle that exists was loaded from the file model_name names; a response
\* names a model only if its answer came from invoking the handle; with no handle
\* no response names a model.
C27_AttributionTruthful ==
    /\ llm # 0 => model_name = Basename(attempts[llm].path)
    /\ pc = "answered" =>
          /\ response.model # NoPath => response.invoked
          /\ llm = 0 => response.model = NoPath

(***************************************************************************)
(* Properties of get_llm and get_agent (SpecLegacy).                       *)
(***************************************************************************)
\* C28: under every interleaving at most one model instance and at most one agent
\* executor are constructed, a global that was set keeps the instance it was set
\* to, and every caller that returns gets the shared instance.
C28_OneSharedInstance ==
    /\ made.llm <= 1 /\ made.agent <= 1
    /\ LLM_INSTANCE = made.llm /\ AGENT_EXECUTOR = made.agent
    /\ \A t \in Threads :
          /\ lpc[t] = "returned" =>
                ret[t] = (IF call[t] = "get_llm" THEN LLM_INSTANCE ELSE AGENT_EXECUTOR)
          /\ lpc[t] = "returned" => ret[t] = 1
          /\ local_llm[t] \in {0, LLM_INSTANCE}

\* a thread that passed the first test of get_llm while the global was None holds
\* the lock and finds the instance another thread has set and returned
C28_Witness ==
    \E t, u \in Threads :
        /\ t # u
        /\ lpc[t] = "llm_recheck" /\ LLM_INSTANCE = 1
        /\ lpc[u] = "returned" /\ ret[u] = 1
        /\ made.agent = 1

(***************************************************************************)
(* Properties of the event stream (SpecStreamFair).                        *)
(***************************************************************************)
IsTerminal(e) == e.type \in {"result", "error"}

\* the numbers of the progress events yielded so far, in the order of the stream
ProgressYielded == SelectSeq(events, LAMBDA e : e.type = "progress")

StreamOrdered ==
    /\ \A i \in 1..Len(events) : IsTerminal(events[i]) => i = Len(events)
    /\ [i \in 1..Len(ProgressYielded) |-> ProgressYielded[i].data]
          \o progress_queue = [i \in 1..enqueued |-> i]
    /\ gpc = "end" =>
          /\ events # <<>> /\ IsTerminal(events[Len(events)])
          /\ Len(ProgressYielded) = enqueued
    /\ gpc # "end" => \A i \in 1..Len(events) : ~IsTerminal(events[i])

\* C29: the stream holds one terminal event, which is its last event; every
\* progress message the worker enqueued is a progress event before it, in the
\* order of enqueueing; and once the worker has finished the generator comes to
\* yield the terminal event.
C29_OneTerminalEventLast ==
    /\ []StreamOrdered
    /\ (wpc = "exit") ~> (gpc = "end")

\* a stream that ended with its result after the three progress events the worker
\* had enqueued
C29_Witness ==
    /\ gpc = "end"
    /\ Len(events) = 4
    /\ events[4].type = "result"
    /\ events[3] = ProgressEvent(3)

(***************************************************************************)
(* Case of the keywords (SpecDetect).                                      *)
(***************************************************************************)
\* the keywords (one-word alternatives) of the patterns of family f
Keywords(f) ==
    UNION { {a.lit : a \in {b \in type_patterns[f].patterns[k] : b.kind = "word"}} :
            k \in 1..Len(type_patterns[f].patterns) }

\* C30: a text that is one keyword of a family, in any letter case, gives that
\* family a score of at least 1.
C30_KeywordsCaseInsensitive ==
    (pc = "done" /\ component_name = <<>>) =>
        \A f \in 1..Len(type_patterns) :
            Lower(text) \in {Lower(k) : k \in Keywords(f)} =>
                Score(type_patterns[f].patterns,
                      SplitWords(SearchText(component_name, text), <<>>)) >= 1

====
